---------------------------- MODULE Spec2Model ----------------------------
(***************************************************************************)
(* Mortality dashboard (Colombia, 2019): the three tables read at startup, *)
(* the seven aggregation pipelines of data_loader.py and the six filter    *)
(* callbacks of callbacks.py, as a state machine.                          *)
(*                                                                         *)
(* A DataFrame is a sequence of rows; a row is a record whose fields are   *)
(* the column names.  A missing cell is NaN (numeric column) or NULL       *)
(* (text column).  pandas operations are operators computed the way pandas *)
(* computes them: merge keeps the left order and yields one row per match, *)
(* groupby sorts the group keys and drops missing keys, sort_values is a   *)
(* quicksort whose order among equal keys is not fixed.                    *)
(***************************************************************************)
EXTENDS Integers, Sequences, FiniteSets, TLC

(***************************************************************************)
(* Bounds of the model.                                                    *)
(***************************************************************************)
\* longest mortality table drawn from RecordPool
MaxRecords == 3
\* largest number of distinct cause codes in a graded mortality table
MaxGroups == 12
\* largest number of departments in a department file
MaxDepartments == 12
\* callbacks running at the same time
MaxThreads == 2
\* filter-change events in a session
MaxEvents == 3

(***************************************************************************)
(* Missing values.                                                         *)
(***************************************************************************)
NaN == -999
NULL == "NaN"

(***************************************************************************)
(* Generic sequence helpers.                                               *)
(***************************************************************************)
Range(s) == {s[i] : i \in DOMAIN s}

Min2(a, b) == IF a <= b THEN a ELSE b

RECURSIVE Flatten(_)
Flatten(ss) == IF ss = <<>> THEN <<>> ELSE Head(ss) \o Flatten(Tail(ss))

\* all sequences over S of length at most n
RECURSIVE SeqsUpTo(_, _)
SeqsUpTo(S, n) ==
    IF n = 0 THEN {<<>>}
    ELSE LET shorter == SeqsUpTo(S, n - 1)
         IN  shorter \cup {Append(s, x) : s \in {t \in shorter : Len(t) = n - 1}, x \in S}

(***************************************************************************)
(* utils.py                                                                *)
(***************************************************************************)
MONTH_NAMES ==
    <<"Enero", "Febrero", "Marzo", "Abril", "Mayo", "Junio",
      "Julio", "Agosto", "Septiembre", "Octubre", "Noviembre", "Diciembre">>

\* app.py: gender_mapping = {1: 'Masculino', 2: 'Femenino', 3: 'Indeterminado'}
gender_mapping == <<"Masculino", "Femenino", "Indeterminado">>

\* mutant: the key taken as a zero-based index
MapDict_ZeroBased(d, k) == IF k + 1 \in DOMAIN d THEN d[k + 1] ELSE NULL

\* dict.get / Series.map through a dict: the value, or missing
MapDict(d, k) == IF k \in DOMAIN d THEN d[k] ELSE NULL

\* mutant: {v: i for i, v in enumerate(d.values())}, the position from zero
InvertDict_Enumerate(d) ==
    [v \in Range(d) |->
        (CHOOSE k \in DOMAIN d : d[k] = v /\ \A j \in DOMAIN d : d[j] = v => j <= k) - 1]

\* {v: k for k, v in d.items()}: a later key overwrites an earlier one
InvertDict(d) ==
    [v \in Range(d) |->
        CHOOSE k \in DOMAIN d : d[k] = v /\ \A j \in DOMAIN d : d[j] = v => j <= k]

(***************************************************************************)
(* Sort orders of the text columns (Python string order on the values the  *)
(* model uses), needed because groupby sorts its keys.                     *)
(***************************************************************************)
DepartmentOrder ==
    <<"ANTIOQUIA", "ATLANTICO", "BOGOTA", "BOLIVAR", "CALDAS", "CAUCA", "CESAR", "HUILA",
      "META", "NORTE DE SANTANDER", "RISARALDA", "TOLIMA", "VALLE">>

MunicipalityOrder ==
    <<"BARRANQUILLA", "BELLO", "BOGOTA", "CALI", "CARTAGENA", "CUCUTA", "ENVIGADO",
      "ITAGUI", "MEDELLIN", "PALMIRA", "PEREIRA", "SOLEDAD">>

CauseOrder ==
    <<"C349", "E119", "I219", "I500", "I64X", "J189", "J440", "K746", "N189",
      "W199", "X700", "X954", "X994", "Y099", "Z999">>

GenderOrder == <<"Femenino", "Indeterminado", "Masculino">>

DescriptionOf(code) == "desc " \o code

DescriptionOrder == [i \in DOMAIN CauseOrder |-> DescriptionOf(CauseOrder[i])]

MonthOrder == [i \in 1..12 |-> i]

(***************************************************************************)
(* pandas                                                                  *)
(***************************************************************************)
\* Series.isin(values)
IsIn(v, values) == \E i \in DOMAIN values : values[i] = v

\* df[df[col].isin(values)]
FilterIsIn(df, col, values) == SelectSeq(df, LAMBDA r : IsIn(r[col], values))

\* mutant: every matching row of the right table is met twice
MergeLeft_Doubled(left, right, lkey, rkey, cols) ==
    LET Joined(l) ==
            LET hits == SelectSeq(right, LAMBDA e : e[rkey] = l[lkey])
            IN  IF hits = <<>>
                THEN << l @@ [c \in cols |-> NULL] >>
                ELSE [i \in 1..(2 * Len(hits)) |-> l @@ [c \in cols |-> hits[((i - 1) % Len(hits)) + 1][c]]]
    IN  Flatten([i \in 1..Len(left) |-> Joined(left[i])])

\* left.merge(right[cols], left_on=lkey, right_on=rkey, how='left'):
\* left order kept, one output row per matching right row, missing cells
\* when there is none
MergeLeft(left, right, lkey, rkey, cols) ==
    LET Joined(l) ==
            LET hits == SelectSeq(right, LAMBDA e : e[rkey] = l[lkey])
            IN  IF hits = <<>>
                THEN << l @@ [c \in cols |-> NULL] >>
                ELSE [i \in 1..Len(hits) |-> l @@ [c \in cols |-> hits[i][c]]]
    IN  Flatten([i \in 1..Len(left) |-> Joined(left[i])])

CountRows(df, col, k) == Len(SelectSeq(df, LAMBDA r : r[col] = k))

\* mutant: a row for every key of the order, also those with no record
GroupBySize_EveryKey(df, col, order, name) ==
    [i \in 1..Len(order) |-> (col :> order[i]) @@ (name :> CountRows(df, col, order[i]))]

\* df.groupby(col).size().reset_index(name=name): one row per key present,
\* keys in sorted order, missing keys dropped
GroupBySize(df, col, order, name) ==
    LET keys == SelectSeq(order, LAMBDA k : CountRows(df, col, k) > 0)
    IN  [i \in 1..Len(keys) |-> (col :> keys[i]) @@ (name :> CountRows(df, col, keys[i]))]

\* groupby on a categorical column: every category is a row when observed
\* is off, only the categories present when it is on
GroupByCategorical(df, col, categories, name, obs) ==
    LET keys == IF obs THEN SelectSeq(categories, LAMBDA k : CountRows(df, col, k) > 0)
                ELSE categories
    IN  [i \in 1..Len(keys) |-> (col :> keys[i]) @@ (name :> CountRows(df, col, keys[i]))]

CountRows2(df, c1, k1, c2, k2) ==
    Len(SelectSeq(df, LAMBDA r : r[c1] = k1 /\ r[c2] = k2))

\* df.groupby([c1, c2]).size().reset_index(name=name): a row whose c1 or c2
\* is missing belongs to no group
GroupBySize2(df, c1, o1, c2, o2, name) ==
    LET n2 == Len(o2)
        pairs == [i \in 1..(Len(o1) * n2) |->
                     << o1[((i - 1) \div n2) + 1], o2[((i - 1) % n2) + 1] >>]
        keys == SelectSeq(pairs, LAMBDA p : CountRows2(df, c1, p[1], c2, p[2]) > 0)
    IN  [i \in 1..Len(keys) |->
            (c1 :> keys[i][1]) @@ (c2 :> keys[i][2])
            @@ (name :> CountRows2(df, c1, keys[i][1], c2, keys[i][2]))]

\* df.sort_values(col, ascending=asc): every arrangement of the rows that is
\* ordered by col (quicksort fixes no order among rows with equal keys)
RECURSIVE SortedArrangements(_, _, _)
SortedArrangements(rows, col, asc) ==
    IF rows = {} THEN {<<>>}
    ELSE LET first == {r \in rows : \A q \in rows :
                          IF asc THEN r[col] <= q[col] ELSE r[col] >= q[col]}
         IN  UNION {{<<r>> \o t : t \in SortedArrangements(rows \ {r}, col, asc)} : r \in first}

\* mutant: ascending=False is lost, the rows come in increasing order
SortValues_Ascending(df, col, asc) == SortedArrangements(Range(df), col, TRUE)

SortValues(df, col, asc) == SortedArrangements(Range(df), col, asc)

\* mutant: df.tail(n), the last rows instead of the first
HeadRows_Tail(df, n) == SubSeq(df, Len(df) + 1 - Min2(n, Len(df)), Len(df))

\* df.head(n)
HeadRows(df, n) == SubSeq(df, 1, Min2(n, Len(df)))

(***************************************************************************)
(* The files load_data reads.  Division codes, departments, municipalities *)
(* and cause codes are a small sample of the real tables.                  *)
(***************************************************************************)
DivisionEntry(code, dept_code, dept, city) ==
    [COD_DANE |-> code, COD_DEPARTAMENTO |-> dept_code, DEPARTAMENTO |-> dept,
     MUNICIPIO |-> city]

\* Divipola.csv with one entry per division code
DivipolaUnique ==
    << DivisionEntry("05001", "05", "ANTIOQUIA", "MEDELLIN"),
       DivisionEntry("05088", "05", "ANTIOQUIA", "BELLO"),
       DivisionEntry("76001", "76", "VALLE", "CALI"),
       DivisionEntry("05266", "05", "ANTIOQUIA", "ENVIGADO"),
       DivisionEntry("05360", "05", "ANTIOQUIA", "ITAGUI"),
       DivisionEntry("08001", "08", "ATLANTICO", "BARRANQUILLA"),
       DivisionEntry("11001", "11", "BOGOTA", "BOGOTA"),
       DivisionEntry("76520", "76", "VALLE", "PALMIRA"),
       DivisionEntry("13001", "13", "BOLIVAR", "CARTAGENA"),
       DivisionEntry("54001", "54", "NORTE DE SANTANDER", "CUCUTA"),
       DivisionEntry("66001", "66", "RISARALDA", "PEREIRA"),
       DivisionEntry("08758", "08", "ATLANTICO", "SOLEDAD") >>

\* Divipola.csv with a repeated line and an entry whose department cell is empty
DivipolaRepeated ==
    << DivisionEntry("05001", "05", "ANTIOQUIA", "MEDELLIN"),
       DivisionEntry("05001", "05", "ANTIOQUIA", "MEDELLIN"),
       DivisionEntry("05088", "05", "ANTIOQUIA", "BELLO"),
       DivisionEntry("76001", "76", NULL, "CALI") >>

DivipolaFiles == {DivipolaUnique, DivipolaRepeated}

\* Divipola.csv with the capital of each of thirteen departments
DivipolaDepartments ==
    << DivisionEntry("05001", "05", "ANTIOQUIA", "MEDELLIN"),
       DivisionEntry("08001", "08", "ATLANTICO", "BARRANQUILLA"),
       DivisionEntry("11001", "11", "BOGOTA", "BOGOTA"),
       DivisionEntry("13001", "13", "BOLIVAR", "CARTAGENA"),
       DivisionEntry("17001", "17", "CALDAS", "MANIZALES"),
       DivisionEntry("19001", "19", "CAUCA", "POPAYAN"),
       DivisionEntry("20001", "20", "CESAR", "VALLEDUPAR"),
       DivisionEntry("41001", "41", "HUILA", "NEIVA"),
       DivisionEntry("50001", "50", "META", "VILLAVICENCIO"),
       DivisionEntry("54001", "54", "NORTE DE SANTANDER", "CUCUTA"),
       DivisionEntry("66001", "66", "RISARALDA", "PEREIRA"),
       DivisionEntry("73001", "73", "TOLIMA", "IBAGUE"),
       DivisionEntry("76001", "76", "VALLE", "CALI") >>

\* division codes of the mortality records; "99999" is in no Divipola file
DivisionCodes == <<"05001", "05088", "76001", "05266", "05360", "08001", "11001">>

CodeColumn == "Código de la CIE-10 cuatro caracteres"

DescriptionColumn == "Descripcion  de códigos mortalidad a cuatro caracteres"

\* CodigosDeMuerte.csv: every cause code of the sample except "Z999"
CodesFile ==
    LET known == SelectSeq(CauseOrder, LAMBDA c : c # "Z999")
    IN  [i \in 1..Len(known) |->
            (CodeColumn :> known[i]) @@ (DescriptionColumn :> DescriptionOf(known[i]))]

MortalityRecord(division, month, cause, manner, age, sex) ==
    [COD_DANE |-> division, MES |-> month, COD_MUERTE |-> cause,
     MANERA_MUERTE |-> manner, GRUPO_EDAD1 |-> age, SEXO |-> sex]

\* the lines a short NoFetal2019.csv is made of
RecordPool ==
    { MortalityRecord("05001", 1, "X954", "Homicidio", 2, 1),
      MortalityRecord("05001", 12, "X994", "Homicidio", 7, 2),
      MortalityRecord("05001", 1, "X954", "Suicidio", 23, 1),
      MortalityRecord("05088", 2, "X954", "Homicidio", 101, 2),
      MortalityRecord("76001", 12, "Z999", "Homicidio", 150, 3),
      MortalityRecord("99999", NaN, "X994", "Natural", NaN, 9) }

ShortFiles == SeqsUpTo(RecordPool, MaxRecords)

\* cause code of the i-th group of a graded file; the first is "Z999"
GradedCause(i) == CauseOrder[Len(CauseOrder) + 1 - i]

\* a NoFetal2019.csv with k cause codes, the i-th one on i lines, spread over
\* seven municipalities, the twelve months and the three sex codes
GradedFile(k) ==
    Flatten([i \in 1..k |->
        [j \in 1..i |->
            MortalityRecord(DivisionCodes[((i - 1) % 7) + 1], ((i - 1) % 12) + 1,
                            GradedCause(i), "Homicidio", 5 * (i - 1), ((i - 1) % 3) + 1)]])

GradedFiles == {GradedFile(k) : k \in 1..MaxGroups}

\* the ages of the binning example: 2, 7, 23 and 101
AgeFile ==
    << MortalityRecord("05001", 1, "X954", "Homicidio", 2, 1),
       MortalityRecord("05001", 12, "X994", "Homicidio", 7, 2),
       MortalityRecord("05001", 1, "X954", "Suicidio", 23, 1),
       MortalityRecord("05088", 2, "X954", "Homicidio", 101, 2) >>

\* a NoFetal2019.csv where a sex code outside 1..3 and an unknown division
\* code occur apart from each other
GenderFile ==
    << MortalityRecord("05001", 3, "I219", "Natural", 60, 1),
       MortalityRecord("05001", 3, "I219", "Natural", 61, 9),
       MortalityRecord("99999", 4, "I219", "Natural", 62, 2),
       MortalityRecord("76001", 5, "X954", "Homicidio", 30, 3),
       MortalityRecord("05088", 6, "I500", "Natural", 80, 2),
       MortalityRecord("05001", 7, "I500", "Natural", 81, 1) >>

\* lines per municipality of the wide file, in the order of DivipolaUnique
WideCounts == <<6, 10, 4, 9, 2, 7, 12, 5, 10, 3, 8, 1>>

\* a NoFetal2019.csv with homicides in every municipality of DivipolaUnique:
\* more municipalities than either top-N slice keeps, two of them level
WideFile ==
    Flatten([i \in 1..Len(WideCounts) |->
        [j \in 1..WideCounts[i] |->
            MortalityRecord(DivipolaUnique[i].COD_DANE, ((j - 1) % 12) + 1, "X954",
                            "Homicidio", 5 * i, ((i - 1) % 3) + 1)]])

\* a NoFetal2019.csv with age values no bin holds (negative, missing, 150 and
\* above) beside ages inside the bins
AgeOutsideFile ==
    << MortalityRecord("05001", 1, "I219", "Natural", -1, 1),
       MortalityRecord("05001", 2, "I219", "Natural", 42, 2),
       MortalityRecord("05088", 3, "I219", "Natural", NaN, 1),
       MortalityRecord("05088", 4, "I500", "Natural", 150, 2),
       MortalityRecord("76001", 5, "I500", "Natural", 44, 1),
       MortalityRecord("76001", 6, "I500", "Natural", 200, 3),
       MortalityRecord("05001", 7, "I500", "Natural", 99, 2) >>

\* lines of the i-th department in a department file of k departments, by
\* pattern: rising, falling, or mixed with equal totals
DepartmentLines(k, i, pattern) ==
    CASE pattern = 1 -> i
      [] pattern = 2 -> k + 1 - i
      [] pattern = 3 -> ((5 * i) % 7) + 1

\* a NoFetal2019.csv with deaths in the first k departments of
\* DivipolaDepartments, of all three sex codes, several months and two manners
DepartmentFile(k, pattern) ==
    Flatten([i \in 1..k |->
        [j \in 1..DepartmentLines(k, i, pattern) |->
            MortalityRecord(DivipolaDepartments[i].COD_DANE, ((j - 1) % 12) + 1, "X954",
                            IF j % 2 = 1 THEN "Homicidio" ELSE "Natural",
                            5 * i, ((i + j) % 3) + 1)]])

DepartmentFiles == {DepartmentFile(k, pattern) : k \in 1..MaxDepartments, pattern \in 1..3}

MortalityFiles ==
    ShortFiles \cup GradedFiles \cup {AgeFile, GenderFile, WideFile, AgeOutsideFile}

(***************************************************************************)
(* data_loader.py: the aggregation pipelines.  Each yields the set of      *)
(* DataFrames the call can return (more than one only where sort_values    *)
(* meets equal counts).                                                    *)
(***************************************************************************)
TopViolent == 5
TopLowest == 10
TopCauses == 10

\* a selection as a callback or a keyword argument receives it: None, or a list
None == [none |-> TRUE, list |-> <<>>]

List(values) == [none |-> FALSE, list |-> values]

\* mutant: only None is taken as "no selection"
Truthy_NotNone(x) == ~x.none

\* "x and len(x) > 0"
Truthy(x) == ~x.none /\ Len(x.list) > 0

\* mutant: groupby(dropna=False), the records without a department get a row
process_data_for_department_map_dropna_off(mortality, divipola) ==
    LET df_mortality_with_dept ==
            MergeLeft(mortality, divipola, "COD_DANE", "COD_DANE",
                      {"COD_DEPARTAMENTO", "DEPARTAMENTO"})
    IN  {GroupBySize(df_mortality_with_dept, "DEPARTAMENTO", DepartmentOrder \o <<NULL>>,
                     "TOTAL_DEATHS")}

process_data_for_department_map(mortality, divipola) ==
    LET df_mortality_with_dept ==
            MergeLeft(mortality, divipola, "COD_DANE", "COD_DANE",
                      {"COD_DEPARTAMENTO", "DEPARTAMENTO"})
    IN  {GroupBySize(df_mortality_with_dept, "DEPARTAMENTO", DepartmentOrder, "TOTAL_DEATHS")}

\* mutant: groups in the order the months first appear, and no sort_values
process_data_for_monthly_deaths_unsorted(mortality) ==
    LET months == [i \in 1..Len(mortality) |-> mortality[i].MES]
        firsts == SelectSeq([i \in 1..Len(months) |-> <<i, months[i]>>],
                            LAMBDA p : /\ p[2] \in Range(MonthOrder)
                                       /\ \A j \in 1..(p[1] - 1) : months[j] # p[2])
    IN  { [i \in 1..Len(firsts) |->
              [MES |-> firsts[i][2],
               TOTAL_DEATHS |-> CountRows(mortality, "MES", firsts[i][2]),
               MONTH_NAME |-> MapDict(MONTH_NAMES, firsts[i][2])]] }

process_data_for_monthly_deaths(mortality) ==
    LET deaths_by_month == GroupBySize(mortality, "MES", MonthOrder, "TOTAL_DEATHS")
    IN  { [i \in 1..Len(sorted) |->
              sorted[i] @@ ("MONTH_NAME" :> MapDict(MONTH_NAMES, sorted[i].MES))]
          : sorted \in SortValues(deaths_by_month, "MES", TRUE) }

\* mutant: the manner filter is skipped when cause codes are supplied
process_data_for_violent_cities_by_code(mortality, divipola, violent_types) ==
    LET selected == IF Truthy(violent_types)
                    THEN FilterIsIn(mortality, "COD_MUERTE", violent_types.list)
                    ELSE SelectSeq(mortality, LAMBDA r : r.MANERA_MUERTE = "Homicidio")
        homicides_with_city ==
            MergeLeft(selected, divipola, "COD_DANE", "COD_DANE", {"MUNICIPIO"})
        homicides_by_city ==
            GroupBySize(homicides_with_city, "MUNICIPIO", MunicipalityOrder, "HOMICIDES")
    IN  {HeadRows(sorted, TopViolent) : sorted \in SortValues(homicides_by_city, "HOMICIDES", FALSE)}

process_data_for_violent_cities(mortality, divipola, violent_types) ==
    LET homicides == SelectSeq(mortality, LAMBDA r : r.MANERA_MUERTE = "Homicidio")
        selected == IF Truthy(violent_types)
                    THEN FilterIsIn(homicides, "COD_MUERTE", violent_types.list)
                    ELSE homicides
        homicides_with_city ==
            MergeLeft(selected, divipola, "COD_DANE", "COD_DANE", {"MUNICIPIO"})
        homicides_by_city ==
            GroupBySize(homicides_with_city, "MUNICIPIO", MunicipalityOrder, "HOMICIDES")
    IN  {HeadRows(sorted, TopViolent) : sorted \in SortValues(homicides_by_city, "HOMICIDES", FALSE)}

process_data_for_lowest_mortality_cities(mortality, divipola) ==
    LET mortality_with_city ==
            MergeLeft(mortality, divipola, "COD_DANE", "COD_DANE", {"MUNICIPIO"})
        grouped == GroupBySize(mortality_with_city, "MUNICIPIO", MunicipalityOrder, "DEATHS")
        deaths_by_city == SelectSeq(grouped, LAMBDA g : g.DEATHS > 0)
    IN  {HeadRows(sorted, TopLowest) : sorted \in SortValues(deaths_by_city, "DEATHS", TRUE)}

\* mutant: the table keeps the names of the group-by
Rename_Unrenamed(df, names) == df

\* df.rename(columns=names)
Rename(df, names) ==
    [i \in 1..Len(df) |->
        [c \in {names[k] : k \in DOMAIN names} |->
            df[i][CHOOSE k \in DOMAIN names : names[k] = c]]]

process_data_for_top_causes(mortality, codes) ==
    LET mortality_with_codes ==
            MergeLeft(mortality, codes, "COD_MUERTE", CodeColumn,
                      {CodeColumn, DescriptionColumn})
        deaths_by_cause ==
            GroupBySize2(mortality_with_codes, "COD_MUERTE", CauseOrder,
                         DescriptionColumn, DescriptionOrder, "TOTAL")
    IN  { Rename(HeadRows(sorted, TopCauses),
                 ("COD_MUERTE" :> "Código") @@ (DescriptionColumn :> "Descripción")
                 @@ ("TOTAL" :> "Total de Casos"))
          : sorted \in SortValues(deaths_by_cause, "TOTAL", FALSE) }

age_bins == <<0, 5, 10, 15, 20, 25, 30, 35, 40, 45, 50, 55, 60, 65, 70, 75, 80, 85, 90,
              95, 100, 150>>

age_labels ==
    <<"0-4", "5-9", "10-14", "15-19", "20-24", "25-29", "30-34", "35-39", "40-44",
      "45-49", "50-54", "55-59", "60-64", "65-69", "70-74", "75-79", "80-84",
      "85-89", "90-94", "95-99", "100+">>

\* mutant: pd.cut with its default right=True, the bins are (lo, hi]
Cut_RightClosed(x, bins, labels) ==
    IF \E i \in 1..(Len(bins) - 1) : bins[i] < x /\ x <= bins[i + 1]
    THEN labels[CHOOSE i \in 1..(Len(bins) - 1) : bins[i] < x /\ x <= bins[i + 1]]
    ELSE NULL

\* pd.cut(x, bins, labels, right=False): the label of the bin [lo, hi) that
\* holds x, missing when no bin does
Cut(x, bins, labels) ==
    IF \E i \in 1..(Len(bins) - 1) : bins[i] <= x /\ x < bins[i + 1]
    THEN labels[CHOOSE i \in 1..(Len(bins) - 1) : bins[i] <= x /\ x < bins[i + 1]]
    ELSE NULL

\* mutant: a missing age is filled with 0 before binning
process_data_for_age_histogram_fillna(mortality, obs) ==
    LET df == [i \in 1..Len(mortality) |->
                  mortality[i] @@
                  ("AGE_GROUP" :> Cut(IF mortality[i].GRUPO_EDAD1 = NaN THEN 0
                                      ELSE mortality[i].GRUPO_EDAD1,
                                      age_bins, age_labels))]
    IN  {GroupByCategorical(df, "AGE_GROUP", age_labels, "COUNT", obs)}

process_data_for_age_histogram(mortality, obs) ==
    LET df == [i \in 1..Len(mortality) |->
                  mortality[i] @@ ("AGE_GROUP" :> Cut(mortality[i].GRUPO_EDAD1, age_bins, age_labels))]
    IN  {GroupByCategorical(df, "AGE_GROUP", age_labels, "COUNT", obs)}

\* mutant: .map(gender_mapping).fillna('Indeterminado'), an unknown sex code
\* is given a label
process_data_for_gender_department_fillna(mortality, divipola) ==
    LET merged == MergeLeft(mortality, divipola, "COD_DANE", "COD_DANE",
                            {"COD_DEPARTAMENTO", "DEPARTAMENTO"})
        df_mortality_with_dept ==
            [i \in 1..Len(merged) |->
                merged[i] @@
                ("GENDER" :> IF merged[i].SEXO \in DOMAIN gender_mapping
                             THEN gender_mapping[merged[i].SEXO]
                             ELSE "Indeterminado")]
    IN  {GroupBySize2(df_mortality_with_dept, "DEPARTAMENTO", DepartmentOrder,
                      "GENDER", GenderOrder, "COUNT")}

\* mutant: GENDER grouped as a category, a row for every pair
process_data_for_gender_department_every_pair(mortality, divipola) ==
    LET merged == MergeLeft(mortality, divipola, "COD_DANE", "COD_DANE",
                            {"COD_DEPARTAMENTO", "DEPARTAMENTO"})
        df_mortality_with_dept ==
            [i \in 1..Len(merged) |->
                merged[i] @@ ("GENDER" :> MapDict(gender_mapping, merged[i].SEXO))]
        n2 == Len(GenderOrder)
        pairs == [i \in 1..(Len(DepartmentOrder) * n2) |->
                     << DepartmentOrder[((i - 1) \div n2) + 1], GenderOrder[((i - 1) % n2) + 1] >>]
    IN  {[i \in 1..Len(pairs) |->
             ("DEPARTAMENTO" :> pairs[i][1]) @@ ("GENDER" :> pairs[i][2])
             @@ ("COUNT" :> CountRows2(df_mortality_with_dept, "DEPARTAMENTO", pairs[i][1],
                                       "GENDER", pairs[i][2]))]}

process_data_for_gender_department(mortality, divipola) ==
    LET merged == MergeLeft(mortality, divipola, "COD_DANE", "COD_DANE",
                            {"COD_DEPARTAMENTO", "DEPARTAMENTO"})
        df_mortality_with_dept ==
            [i \in 1..Len(merged) |->
                merged[i] @@ ("GENDER" :> MapDict(gender_mapping, merged[i].SEXO))]
    IN  {GroupBySize2(df_mortality_with_dept, "DEPARTAMENTO", DepartmentOrder,
                      "GENDER", GenderOrder, "COUNT")}

(***************************************************************************)
(* Text of a cause selection.  A text is the sequence of its pieces, the   *)
(* separator " - " being a piece of its own, so that splitting is done on  *)
(* the text and not assumed.                                               *)
(***************************************************************************)
Sep == " - "

RECURSIVE Concat(_)
Concat(text) == IF text = <<>> THEN "" ELSE Head(text) \o Concat(Tail(text))

\* mutant: text.rsplit(' - ', 1)[0], the text before the last separator
SplitFirst_BeforeLast(text) ==
    LET at == {i \in DOMAIN text : text[i] = Sep}
    IN  IF at = {} THEN text
        ELSE SubSeq(text, 1, (CHOOSE i \in at : \A j \in at : i >= j) - 1)

\* text.split(' - ')[0]: the text before the first separator, the whole
\* text when it holds none
SplitFirst(text) ==
    LET at == {i \in DOMAIN text : text[i] = Sep}
    IN  IF at = {} THEN text
        ELSE SubSeq(text, 1, (CHOOSE i \in at : \A j \in at : i <= j) - 1)

\* f"{code} - {desc}"
Label(code, desc) == <<code, Sep>> \o desc

(***************************************************************************)
(* Values a filter dropdown can send.                                      *)
(***************************************************************************)
SelManners ==
    {None, List(<<>>), List(<<"Homicidio">>), List(<<"Suicidio", "Homicidio">>)}

SelMonths ==
    {None, List(<<>>), List(<<"Enero">>), List(<<"Diciembre", "Enero">>),
     List(<<"January">>)}

SelGenders ==
    {None, List(<<>>), List(<<"Masculino">>), List(<<"Femenino", "Masculino">>),
     List(<<"Otro">>)}

SelDepts ==
    {None, List(<<>>), List(<<"ANTIOQUIA">>), List(<<"VALLE", "ANTIOQUIA">>)}

SelViolentTypes ==
    {None, List(<<>>),
     List(<< Label("X954", <<"agresion con disparo">>) >>),
     List(<< Label("X994", <<"agresion", Sep, "objeto cortante">>), <<"X954">> >>),
     List(<< <<"disparo">>, Label("X994", <<"agresion con objeto cortante">>) >>),
     List(<< <<"disparo">> >>)}

(***************************************************************************)
(* State.                                                                  *)
(***************************************************************************)
VARIABLES
    df_mortality,   \* app.py:24, the mortality table
    df_codes,       \* app.py:24, the cause-code table
    df_divipola,    \* app.py:24, the division table
    observed,       \* the installed pandas' default for groupby(observed=...)
    pc,             \* position of the process: a line of app.py, "serve" or "exit"
    event,          \* the aggregation or callback that ran last, with its inputs
    out             \* what it returned, or that it raised

vars == <<df_mortality, df_codes, df_divipola, observed, pc, event, out>>

Returned(df) == [raised |-> FALSE, df |-> df]

Raised == [raised |-> TRUE, df |-> <<>>]

\* [d[x] for x in selected]: KeyError when a label is no key of d
Translatable(selected, d) == \A i \in DOMAIN selected.list : selected.list[i] \in DOMAIN d

Translate(selected, d) == [i \in DOMAIN selected.list |-> d[selected.list[i]]]

\* mutant: only the first selected gender is translated
GenderFilter_FirstOnly(df, selected_genders) ==
    IF Truthy(selected_genders)
    THEN FilterIsIn(df, "SEXO",
                    << InvertDict(gender_mapping)[selected_genders.list[1]] >>)
    ELSE df

\* the gender block shared by five callbacks (callbacks.py:53-56)
GenderFilter(df, selected_genders) ==
    IF Truthy(selected_genders)
    THEN FilterIsIn(df, "SEXO", Translate(selected_genders, InvertDict(gender_mapping)))
    ELSE df

GenderRaises(selected_genders) ==
    Truthy(selected_genders) /\ ~Translatable(selected_genders, InvertDict(gender_mapping))

\* the month block (callbacks.py:48-51, 257-260)
MonthFilter(df, selected_months) ==
    IF Truthy(selected_months)
    THEN FilterIsIn(df, "MES", Translate(selected_months, InvertDict(MONTH_NAMES)))
    ELSE df

MonthRaises(selected_months) ==
    Truthy(selected_months) /\ ~Translatable(selected_months, InvertDict(MONTH_NAMES))

\* the manner block (callbacks.py:45-46, 254-255)
MannerFilter(df, selected_manners) ==
    IF Truthy(selected_manners)
    THEN FilterIsIn(df, "MANERA_MUERTE", selected_manners.list)
    ELSE df

\* the department block (callbacks.py:88-96, 133-141)
DeptFilter(df, selected_depts) ==
    IF Truthy(selected_depts)
    THEN FilterIsIn(MergeLeft(df, df_divipola, "COD_DANE", "COD_DANE",
                              {"COD_DEPARTAMENTO", "DEPARTAMENTO"}),
                    "DEPARTAMENTO", selected_depts.list)
    ELSE df

update_map(selected_manners, selected_months, selected_genders) ==
    IF MonthRaises(selected_months) \/ GenderRaises(selected_genders) THEN {Raised}
    ELSE LET filtered_df ==
                 GenderFilter(MonthFilter(MannerFilter(df_mortality, selected_manners),
                                          selected_months), selected_genders)
         IN  {Returned(d) : d \in process_data_for_department_map(filtered_df, df_divipola)}

update_monthly_chart(selected_depts, selected_genders) ==
    IF GenderRaises(selected_genders) THEN {Raised}
    ELSE LET filtered_df == GenderFilter(DeptFilter(df_mortality, selected_depts), selected_genders)
         IN  {Returned(d) : d \in process_data_for_monthly_deaths(filtered_df)}

update_age_histogram(selected_depts, selected_genders) ==
    IF GenderRaises(selected_genders) THEN {Raised}
    ELSE LET filtered_df == GenderFilter(DeptFilter(df_mortality, selected_depts), selected_genders)
         IN  {Returned(d) : d \in process_data_for_age_histogram(filtered_df, observed)}

\* mutant: a value without the separator is dropped
SelectedCodes_DropUnparsable(selected_violent_types) ==
    IF Truthy(selected_violent_types)
    THEN LET parsable == SelectSeq(selected_violent_types.list,
                                   LAMBDA t : \E i \in DOMAIN t : t[i] = Sep)
         IN  [i \in DOMAIN parsable |-> Concat(SplitFirst(parsable[i]))]
    ELSE <<>>

\* callbacks.py:184-189
SelectedCodes(selected_violent_types) ==
    IF Truthy(selected_violent_types)
    THEN [i \in DOMAIN selected_violent_types.list |->
             Concat(SplitFirst(selected_violent_types.list[i]))]
    ELSE <<>>

\* mutant: the five cities are taken from the unfiltered table and the gender
\* filter then restricts them
update_violent_cities_chart_slice_first(selected_violent_types, selected_genders) ==
    IF GenderRaises(selected_genders) THEN {Raised}
    ELSE LET filtered_df == GenderFilter(df_mortality, selected_genders)
             selected_codes == SelectedCodes(selected_violent_types)
         IN  {Returned(SelectSeq(d, LAMBDA row : \E i \in DOMAIN u : u[i].MUNICIPIO = row.MUNICIPIO))
                 : d \in process_data_for_violent_cities(
                             filtered_df, df_divipola, List(selected_codes)),
                   u \in process_data_for_violent_cities(
                             df_mortality, df_divipola, List(selected_codes))}

update_violent_cities_chart(selected_violent_types, selected_genders) ==
    IF GenderRaises(selected_genders) THEN {Raised}
    ELSE LET filtered_df == GenderFilter(df_mortality, selected_genders)
             selected_codes == SelectedCodes(selected_violent_types)
         IN  {Returned(d) : d \in process_data_for_violent_cities(
                                      filtered_df, df_divipola, List(selected_codes))}

update_lowest_mortality_chart(selected_genders) ==
    IF GenderRaises(selected_genders) THEN {Raised}
    ELSE LET filtered_df == GenderFilter(df_mortality, selected_genders)
         IN  {Returned(d) : d \in process_data_for_lowest_mortality_cities(filtered_df, df_divipola)}

update_gender_dept_chart(selected_manners, selected_months) ==
    IF MonthRaises(selected_months) THEN {Raised}
    ELSE LET filtered_df ==
                 MonthFilter(MannerFilter(df_mortality, selected_manners), selected_months)
         IN  {Returned(d) : d \in process_data_for_gender_department(filtered_df, df_divipola)}

(***************************************************************************)
(* The column names the consumers bind to: the chart builders of           *)
(* charts.py and the DataTable of app.py.                                  *)
(***************************************************************************)
\* app.py:46-50, the column ids of the top-causes DataTable
top_causes_table_columns == {"Código", "Descripción", "Total de Casos"}

\* the columns each chart builder reads from the frame it is given
ChartColumns(chart) ==
    CASE chart = "create_department_map" -> {"DEPARTAMENTO", "TOTAL_DEATHS"}
      [] chart = "create_monthly_deaths_chart" -> {"MONTH_NAME", "TOTAL_DEATHS"}
      [] chart = "create_age_histogram" -> {"AGE_GROUP", "COUNT"}
      [] chart = "create_violent_cities_chart" -> {"MUNICIPIO", "HOMICIDES"}
      [] chart = "create_lowest_mortality_chart" -> {"MUNICIPIO", "DEATHS"}
      [] chart = "create_gender_department_chart" -> {"DEPARTAMENTO", "GENDER", "COUNT"}

\* app.py:36-51 and the last statements of the callbacks: who consumes the
\* aggregate of a startup step or of a callback
ConsumerColumns(name) ==
    CASE name \in {"deaths_by_dept", "update_map"} -> ChartColumns("create_department_map")
      [] name \in {"deaths_by_month", "update_monthly_chart"} ->
             ChartColumns("create_monthly_deaths_chart")
      [] name \in {"deaths_by_age", "update_age_histogram"} ->
             ChartColumns("create_age_histogram")
      [] name \in {"top_violent_cities", "update_violent_cities_chart"} ->
             ChartColumns("create_violent_cities_chart")
      [] name \in {"lowest_mortality_cities", "update_lowest_mortality_chart"} ->
             ChartColumns("create_lowest_mortality_chart")
      [] name \in {"deaths_by_dept_gender", "update_gender_dept_chart"} ->
             ChartColumns("create_gender_department_chart")
      [] name = "top_causes" -> top_causes_table_columns

(***************************************************************************)
(* The process: app.py from top to bottom, then the callbacks as the       *)
(* dropdowns fire them.                                                    *)
(***************************************************************************)
Init ==
    /\ df_mortality = <<>>
    /\ df_codes = <<>>
    /\ df_divipola = <<>>
    /\ observed \in BOOLEAN
    /\ pc = "L24"
    /\ event = [name |-> "start", args |-> <<>>]
    /\ out = Returned(<<>>)

\* app.py:24, the three files are read
load_data ==
    /\ pc = "L24"
    /\ \E m \in MortalityFiles, d \in DivipolaFiles :
          /\ df_mortality' = m
          /\ df_divipola' = d
          /\ df_codes' = CodesFile
    /\ pc' = "L27"
    /\ event' = [name |-> "load_data", args |-> <<>>]
    /\ UNCHANGED <<observed, out>>

\* what load_data prints before exit(): a file is missing / any other failure
ExitMessages ==
    {"Error: Asegúrese de que los archivos estén en el directorio de datos.",
     "Ocurrió un error durante la carga de archivos"}

\* mutant: the message is printed but load_data returns empty tables
load_data_returns_partial ==
    /\ pc = "L24"
    /\ pc' = "L27"
    /\ \E message \in ExitMessages : event' = [name |-> "load_data", args |-> <<message>>]
    /\ UNCHANGED <<df_mortality, df_codes, df_divipola, observed, out>>

\* app.py:24, a file is missing or unreadable: message, then exit(); nothing
\* is returned and the process ends
load_data_exit ==
    /\ pc = "L24"
    /\ pc' = "exit"
    /\ \E message \in ExitMessages : event' = [name |-> "load_data", args |-> <<message>>]
    /\ UNCHANGED <<df_mortality, df_codes, df_divipola, observed, out>>

Step(at, next, name, results) ==
    /\ pc = at
    /\ \E d \in results : out' = Returned(d)
    /\ pc' = next
    /\ event' = [name |-> name, args |-> <<>>]
    /\ UNCHANGED <<df_mortality, df_codes, df_divipola, observed>>

deaths_by_dept ==
    Step("L27", "L28", "deaths_by_dept",
         process_data_for_department_map(df_mortality, df_divipola))

deaths_by_month ==
    Step("L28", "L29", "deaths_by_month", process_data_for_monthly_deaths(df_mortality))

\* mutant: the histogram works on df_mortality itself (no .copy()), which
\* gains the AGE_GROUP column
deaths_by_age_in_place ==
    /\ pc = "L29"
    /\ \E d \in process_data_for_age_histogram(df_mortality, observed) : out' = Returned(d)
    /\ df_mortality' =
          [i \in 1..Len(df_mortality) |->
              df_mortality[i] @@
              ("AGE_GROUP" :> Cut(df_mortality[i].GRUPO_EDAD1, age_bins, age_labels))]
    /\ pc' = "L30"
    /\ event' = [name |-> "deaths_by_age", args |-> <<>>]
    /\ UNCHANGED <<df_codes, df_divipola, observed>>

deaths_by_age ==
    Step("L29", "L30", "deaths_by_age", process_data_for_age_histogram(df_mortality, observed))

top_violent_cities ==
    Step("L30", "L31", "top_violent_cities",
         process_data_for_violent_cities(df_mortality, df_divipola, None))

lowest_mortality_cities ==
    Step("L31", "L32", "lowest_mortality_cities",
         process_data_for_lowest_mortality_cities(df_mortality, df_divipola))

top_causes ==
    Step("L32", "L33", "top_causes", process_data_for_top_causes(df_mortality, df_codes))

deaths_by_dept_gender ==
    Step("L33", "L105", "deaths_by_dept_gender",
         process_data_for_gender_department(df_mortality, df_divipola))

\* app.py:105; the startup aggregates have gone into the figures
register_callbacks ==
    /\ pc = "L105"
    /\ pc' = "serve"
    /\ event' = [name |-> "idle", args |-> <<>>]
    /\ out' = Returned(<<>>)
    /\ UNCHANGED <<df_mortality, df_codes, df_divipola, observed>>

Callback(name, args, outcomes) ==
    /\ pc = "serve"
    /\ \E o \in outcomes : out' = o
    /\ pc' = "respond"
    /\ event' = [name |-> name, args |-> args]
    /\ UNCHANGED <<df_mortality, df_codes, df_divipola, observed>>

\* the figure is sent; the callback's locals are gone and the server waits
respond ==
    /\ pc = "respond"
    /\ pc' = "serve"
    /\ event' = [name |-> "idle", args |-> <<>>]
    /\ out' = Returned(<<>>)
    /\ UNCHANGED <<df_mortality, df_codes, df_divipola, observed>>

on_update_map ==
    \E m \in SelManners, mo \in SelMonths, g \in SelGenders :
        Callback("update_map", <<m, mo, g>>, update_map(m, mo, g))

on_update_monthly_chart ==
    \E d \in SelDepts, g \in SelGenders :
        Callback("update_monthly_chart", <<d, g>>, update_monthly_chart(d, g))

on_update_age_histogram ==
    \E d \in SelDepts, g \in SelGenders :
        Callback("update_age_histogram", <<d, g>>, update_age_histogram(d, g))

on_update_violent_cities_chart ==
    \E v \in SelViolentTypes, g \in SelGenders :
        Callback("update_violent_cities_chart", <<v, g>>, update_violent_cities_chart(v, g))

on_update_lowest_mortality_chart ==
    \E g \in SelGenders :
        Callback("update_lowest_mortality_chart", <<g>>, update_lowest_mortality_chart(g))

on_update_gender_dept_chart ==
    \E m \in SelManners, mo \in SelMonths :
        Callback("update_gender_dept_chart", <<m, mo>>, update_gender_dept_chart(m, mo))

Next ==
    \/ load_data
    \/ load_data_exit
    \/ deaths_by_dept
    \/ deaths_by_month
    \/ deaths_by_age
    \/ top_violent_cities
    \/ lowest_mortality_cities
    \/ top_causes
    \/ deaths_by_dept_gender
    \/ register_callbacks
    \/ on_update_map
    \/ on_update_monthly_chart
    \/ on_update_age_histogram
    \/ on_update_violent_cities_chart
    \/ on_update_lowest_mortality_chart
    \/ on_update_gender_dept_chart
    \/ respond

Spec == Init /\ [][Next]_vars

(***************************************************************************)
(* The label translation on its own: a set of display labels of a lookup   *)
(* table is turned into codes through the inverted table                   *)
(* (callbacks.py:49-50, 54-55) and the codes are mapped back to labels     *)
(* through the table (data_loader.py:80, 277).                             *)
(***************************************************************************)
\* the lookup table of a name
LookupTable(name) == IF name = "MONTH_NAMES" THEN MONTH_NAMES ELSE gender_mapping

\* the label lists that can be drawn from a table and one label it lacks
LabelLists(d) ==
    LET labels == d \o <<"Otro">>
    IN  {SelectSeq(labels, LAMBDA x : x \in S) : S \in SUBSET Range(labels)}

InitTranslate ==
    /\ df_mortality = <<>>
    /\ df_codes = <<>>
    /\ df_divipola = <<>>
    /\ observed = FALSE
    /\ pc = "labels"
    /\ \E name \in {"MONTH_NAMES", "gender_mapping"} :
          \E labels \in LabelLists(LookupTable(name)) :
              event = [name |-> name, args |-> <<List(labels)>>]
    /\ out = Returned(<<>>)

\* [month_to_num[month] for month in selected_months]
translate_labels ==
    /\ pc = "labels"
    /\ LET d == InvertDict(LookupTable(event.name))
       IN  IF Translatable(event.args[1], d)
           THEN /\ out' = Returned(Translate(event.args[1], d))
                /\ pc' = "codes"
           ELSE /\ out' = Raised
                /\ pc' = "KeyError"
    /\ UNCHANGED <<df_mortality, df_codes, df_divipola, observed, event>>

\* Series.map(MONTH_NAMES), Series.map(gender_mapping)
map_codes ==
    /\ pc = "codes"
    /\ out' = Returned([i \in DOMAIN out.df |-> MapDict(LookupTable(event.name), out.df[i])])
    /\ pc' = "mapped"
    /\ UNCHANGED <<df_mortality, df_codes, df_divipola, observed, event>>

NextTranslate ==
    \/ translate_labels
    \/ map_codes

SpecTranslate == InitTranslate /\ [][NextTranslate]_vars

(***************************************************************************)
(* The homicide cause labels and their translation on their own:           *)
(* get_homicide_codes_with_descriptions builds the options                 *)
(* (data_loader.py:224-254) and the selected labels are translated back to *)
(* cause codes (callbacks.py:184-189).                                     *)
(***************************************************************************)
\* a Python str as the text it is: its pieces, cut at every " - "
RECURSIVE Text(_)
Text(s) ==
    LET at == {i \in 1..(Len(s) - 2) : SubSeq(s, i, i + 2) = Sep}
    IN  IF at = {} THEN <<s>>
        ELSE LET k == CHOOSE i \in at : \A j \in at : i <= j
             IN  <<SubSeq(s, 1, k - 1), Sep>> \o Text(SubSeq(s, k + 3, Len(s)))

\* CodigosDeMuerte.csv with " - " inside every description
CodesFileDashed ==
    [i \in DOMAIN CodesFile |->
        (CodeColumn :> CodesFile[i][CodeColumn])
        @@ (DescriptionColumn :> "agresion - " \o CodesFile[i][CodeColumn] \o " - otros")]

get_homicide_codes_with_descriptions(mortality, codes) ==
    LET homicides == SelectSeq(mortality, LAMBDA r : r.MANERA_MUERTE = "Homicidio")
        unique_homicide_codes == {homicides[i].COD_MUERTE : i \in DOMAIN homicides}
        homicide_codes_with_desc ==
            SelectSeq(codes, LAMBDA c : c[CodeColumn] \in unique_homicide_codes)
        n == Len(homicide_codes_with_desc)
        \* dict(zip(...)): a key stays where it first came, its value is the last
        firsts == SelectSeq([i \in 1..n |-> i],
                            LAMBDA i : \A j \in 1..(i - 1) :
                                homicide_codes_with_desc[j][CodeColumn] #
                                homicide_codes_with_desc[i][CodeColumn])
        Desc(code) ==
            homicide_codes_with_desc[
                CHOOSE i \in 1..n :
                    /\ homicide_codes_with_desc[i][CodeColumn] = code
                    /\ \A j \in (i + 1)..n : homicide_codes_with_desc[j][CodeColumn] # code
            ][DescriptionColumn]
    IN  [k \in 1..Len(firsts) |->
            LET code == homicide_codes_with_desc[firsts[k]][CodeColumn]
            IN  [label |-> Text(code \o Sep \o Desc(code)), value |-> code]]

\* what can be selected of the options: nothing, one label, or all of them
LabelSelections(options) ==
    {<<>>, [i \in DOMAIN options |-> options[i].label]}
    \cup {<<options[i].label>> : i \in DOMAIN options}

InitLabels ==
    /\ df_mortality \in MortalityFiles
    /\ df_codes \in {CodesFile, CodesFileDashed}
    /\ df_divipola = <<>>
    /\ observed = FALSE
    /\ pc = "options"
    /\ event = [name |-> "start", args |-> <<>>]
    /\ out = Returned(<<>>)

build_options ==
    /\ pc = "options"
    /\ out' = Returned(get_homicide_codes_with_descriptions(df_mortality, df_codes))
    /\ pc' = "built"
    /\ event' = [name |-> "get_homicide_codes_with_descriptions", args |-> <<>>]
    /\ UNCHANGED <<df_mortality, df_codes, df_divipola, observed>>

\* callbacks.py:184-189 on a selection of the labels
translate_selection ==
    /\ pc = "built"
    /\ \E labels \in LabelSelections(out.df) :
          /\ event' = [name |-> "translate", args |-> <<List(labels)>>]
          /\ out' = Returned(SelectedCodes(List(labels)))
    /\ pc' = "translated"
    /\ UNCHANGED <<df_mortality, df_codes, df_divipola, observed>>

NextLabels ==
    \/ build_options
    \/ translate_selection

SpecLabels == InitLabels /\ [][NextLabels]_vars

(***************************************************************************)
(* charts.py: the department x gender chart on its own.  The aggregate is  *)
(* computed as at startup or in update_gender_dept_chart and handed to     *)
(* create_gender_department_chart, which keeps the rows of the ten         *)
(* departments with the most deaths for the bars.                          *)
(***************************************************************************)
TopDepartments == 10

\* ['COUNT'].sum() of a group
RECURSIVE GroupSum(_)
GroupSum(rows) == IF rows = <<>> THEN 0 ELSE Head(rows).COUNT + GroupSum(Tail(rows))

\* df.groupby('DEPARTAMENTO')['COUNT'].sum(): one total per department, the
\* departments in sorted order
DepartmentTotals(df) ==
    LET present == SelectSeq(DepartmentOrder,
                             LAMBDA d : \E i \in DOMAIN df : df[i].DEPARTAMENTO = d)
    IN  [k \in 1..Len(present) |->
            [DEPARTAMENTO |-> present[k],
             COUNT |-> GroupSum(SelectSeq(df, LAMBDA r : r.DEPARTAMENTO = present[k]))]]

\* Series.nlargest(n) (keep='first'): the index of the n largest values; of
\* equal values the one that comes first is taken first
NLargest(totals, n) ==
    LET Before(i, j) == \/ totals[i].COUNT > totals[j].COUNT
                        \/ (totals[i].COUNT = totals[j].COUNT /\ i < j)
        Rank(i) == Cardinality({j \in DOMAIN totals : Before(j, i)}) + 1
    IN  {totals[i].DEPARTAMENTO : i \in {j \in DOMAIN totals : Rank(j) <= n}}

\* mutant: head(10) of the totals, the first ten departments by name
create_gender_department_chart_head(dept_gender) ==
    LET totals == DepartmentTotals(dept_gender)
        top_depts == {totals[i].DEPARTAMENTO : i \in 1..Min2(TopDepartments, Len(totals))}
    IN  SelectSeq(dept_gender, LAMBDA r : r.DEPARTAMENTO \in top_depts)

\* the rows create_gender_department_chart hands to px.bar (filtered_df)
create_gender_department_chart(dept_gender) ==
    LET top_depts == NLargest(DepartmentTotals(dept_gender), TopDepartments)
    IN  SelectSeq(dept_gender, LAMBDA r : r.DEPARTAMENTO \in top_depts)

InitChart ==
    /\ df_mortality \in DepartmentFiles
    /\ df_codes = CodesFile
    /\ df_divipola = DivipolaDepartments
    /\ observed = FALSE
    /\ pc = "aggregate"
    /\ event = [name |-> "start", args |-> <<>>]
    /\ out = Returned(<<>>)

\* app.py:33 (no selection) and callbacks.py:251-263
aggregate_for_chart ==
    /\ pc = "aggregate"
    /\ \E m \in SelManners, mo \in SelMonths :
          /\ \E o \in update_gender_dept_chart(m, mo) : out' = o
          /\ event' = [name |-> "update_gender_dept_chart", args |-> <<m, mo>>]
    /\ pc' = "chart"
    /\ UNCHANGED <<df_mortality, df_codes, df_divipola, observed>>

\* app.py:41 and callbacks.py:266; the aggregate it was given stays in event
draw_gender_department_chart ==
    /\ pc = "chart"
    /\ ~out.raised
    /\ out' = Returned(create_gender_department_chart(out.df))
    /\ event' = [name |-> "create_gender_department_chart", args |-> <<out.df>>]
    /\ pc' = "drawn"
    /\ UNCHANGED <<df_mortality, df_codes, df_divipola, observed>>

NextChart ==
    \/ aggregate_for_chart
    \/ draw_gender_department_chart

SpecChart == InitChart /\ [][NextChart]_vars

(***************************************************************************)
(* callbacks.py under Dash's threaded server: several callbacks at once.   *)
(* Each thread runs its callback statement by statement on its own         *)
(* filtered_df; the base tables are shared.  Here pc, event and out hold   *)
(* one position, one call and one local frame per thread.                  *)
(***************************************************************************)
Threads == 1..MaxThreads

\* the calls the dropdowns of the monthly and the violent-cities chart send
ConcurrentCalls ==
    {[name |-> "update_monthly_chart", args |-> <<d, g>>] :
        d \in {None, List(<<"ANTIOQUIA">>)},
        g \in {None, List(<<"Masculino">>), List(<<"Otro">>)}}
    \cup
    {[name |-> "update_violent_cities_chart", args |-> <<v, g>>] :
        v \in {None, List(<< Label("X954", <<"agresion con disparo">>) >>)},
        g \in {None, List(<<"Femenino", "Masculino">>), List(<<"Otro">>)}}

InitConcurrent ==
    /\ df_mortality \in {GenderFile, WideFile}
    /\ df_codes = CodesFile
    /\ df_divipola = DivipolaUnique
    /\ observed = FALSE
    /\ pc = [t \in Threads |-> "idle"]
    /\ event = [t \in Threads |-> [name |-> "start", args |-> <<>>]]
    /\ out = [t \in Threads |-> Returned(<<>>)]

Shared == <<df_mortality, df_codes, df_divipola, observed>>

\* a dropdown changes and Dash hands the callback to a thread
call(t) ==
    /\ pc[t] = "idle"
    /\ \E c \in ConcurrentCalls : event' = [event EXCEPT ![t] = c]
    /\ pc' = [pc EXCEPT ![t] = "copy"]
    /\ UNCHANGED <<Shared, out>>

\* callbacks.py:85, 175: filtered_df = df_mortality.copy()
copy(t) ==
    /\ pc[t] = "copy"
    /\ out' = [out EXCEPT ![t] = Returned(df_mortality)]
    /\ pc' = [pc EXCEPT ![t] = IF event[t].name = "update_monthly_chart"
                               THEN "depts" ELSE "genders"]
    /\ UNCHANGED <<Shared, event>>

\* callbacks.py:88-96
dept_filter(t) ==
    /\ pc[t] = "depts"
    /\ out' = [out EXCEPT ![t] = Returned(DeptFilter(out[t].df, event[t].args[1]))]
    /\ pc' = [pc EXCEPT ![t] = "genders"]
    /\ UNCHANGED <<Shared, event>>

\* mutant: the rows are dropped from the shared table in place
gender_filter_in_place(t) ==
    /\ pc[t] = "genders"
    /\ IF GenderRaises(event[t].args[2])
       THEN /\ out' = [out EXCEPT ![t] = Raised]
            /\ pc' = [pc EXCEPT ![t] = "returned"]
            /\ UNCHANGED df_mortality
       ELSE /\ out' = [out EXCEPT ![t] = Returned(GenderFilter(out[t].df, event[t].args[2]))]
            /\ pc' = [pc EXCEPT ![t] = "process"]
            /\ df_mortality' = GenderFilter(df_mortality, event[t].args[2])
    /\ UNCHANGED <<df_codes, df_divipola, observed, event>>

\* callbacks.py:98-101, 178-181; an unknown gender label raises KeyError
gender_filter(t) ==
    /\ pc[t] = "genders"
    /\ IF GenderRaises(event[t].args[2])
       THEN /\ out' = [out EXCEPT ![t] = Raised]
            /\ pc' = [pc EXCEPT ![t] = "returned"]
       ELSE /\ out' = [out EXCEPT ![t] = Returned(GenderFilter(out[t].df, event[t].args[2]))]
            /\ pc' = [pc EXCEPT ![t] = "process"]
    /\ UNCHANGED <<Shared, event>>

\* callbacks.py:104 and 184-192: the aggregate of the local frame
process(t) ==
    /\ pc[t] = "process"
    /\ \E d \in IF event[t].name = "update_monthly_chart"
                THEN process_data_for_monthly_deaths(out[t].df)
                ELSE process_data_for_violent_cities(
                         out[t].df, df_divipola, List(SelectedCodes(event[t].args[1]))) :
          out' = [out EXCEPT ![t] = Returned(d)]
    /\ pc' = [pc EXCEPT ![t] = "returned"]
    /\ UNCHANGED <<Shared, event>>

NextConcurrent ==
    \/ \E t \in Threads : call(t)
    \/ \E t \in Threads : copy(t)
    \/ \E t \in Threads : dept_filter(t)
    \/ \E t \in Threads : gender_filter(t)
    \/ \E t \in Threads : process(t)

SpecConcurrent == InitConcurrent /\ [][NextConcurrent]_vars

(***************************************************************************)
(* A session: filter-change events one after another, each run to          *)
(* completion.  Here event is the list of the calls made so far and out    *)
(* the list of what they returned.                                         *)
(***************************************************************************)
HistoryManners == {None, List(<<"Homicidio">>)}

HistoryMonths == {None, List(<<"Diciembre", "Enero">>)}

HistoryGenders == {None, List(<<"Masculino">>)}

HistoryDepts == {None, List(<<"ANTIOQUIA">>)}

HistoryViolentTypes == {None, List(<< Label("X954", <<"agresion con disparo">>) >>)}

InitHistory ==
    /\ df_mortality \in {GenderFile, AgeFile}
    /\ df_codes = CodesFile
    /\ df_divipola = DivipolaUnique
    /\ observed = FALSE
    /\ pc = "serve"
    /\ event = <<>>
    /\ out = <<>>

\* one callback from the dropdown change to its return
Served(name, args, outcomes) ==
    /\ Len(event) < MaxEvents
    /\ event' = Append(event, [name |-> name, args |-> args])
    /\ \E o \in outcomes : out' = Append(out, o)
    /\ UNCHANGED <<df_mortality, df_codes, df_divipola, observed, pc>>

served_update_map ==
    \E m \in HistoryManners, mo \in HistoryMonths, g \in HistoryGenders :
        Served("update_map", <<m, mo, g>>, update_map(m, mo, g))

served_update_monthly_chart ==
    \E d \in HistoryDepts, g \in HistoryGenders :
        Served("update_monthly_chart", <<d, g>>, update_monthly_chart(d, g))

served_update_age_histogram ==
    \E d \in HistoryDepts, g \in HistoryGenders :
        Served("update_age_histogram", <<d, g>>, update_age_histogram(d, g))

served_update_violent_cities_chart ==
    \E v \in HistoryViolentTypes, g \in HistoryGenders :
        Served("update_violent_cities_chart", <<v, g>>, update_violent_cities_chart(v, g))

\* mutant: the gender filter drops the rows from the base table
served_update_lowest_mortality_chart_in_place ==
    \E g \in HistoryGenders :
        /\ Len(event) < MaxEvents
        /\ event' = Append(event, [name |-> "update_lowest_mortality_chart", args |-> <<g>>])
        /\ \E o \in update_lowest_mortality_chart(g) : out' = Append(out, o)
        /\ df_mortality' = GenderFilter(df_mortality, g)
        /\ UNCHANGED <<df_codes, df_divipola, observed, pc>>

served_update_lowest_mortality_chart ==
    \E g \in HistoryGenders :
        Served("update_lowest_mortality_chart", <<g>>, update_lowest_mortality_chart(g))

served_update_gender_dept_chart ==
    \E m \in HistoryManners, mo \in HistoryMonths :
        Served("update_gender_dept_chart", <<m, mo>>, update_gender_dept_chart(m, mo))

NextHistory ==
    \/ served_update_map
    \/ served_update_monthly_chart
    \/ served_update_age_histogram
    \/ served_update_violent_cities_chart
    \/ served_update_lowest_mortality_chart
    \/ served_update_gender_dept_chart

SpecHistory == InitHistory /\ [][NextHistory]_vars

(***************************************************************************)
(* The filter blocks of update_map, update_monthly_chart and               *)
(* update_age_histogram, with the filtered_df they hand to the aggregation *)
(* kept beside the aggregate in out.                                       *)
(***************************************************************************)
\* mutant: the gender block filters the base table, not filtered_df
update_map_filtered_df_from_base(selected_manners, selected_months, selected_genders) ==
    IF Truthy(selected_genders)
    THEN GenderFilter(df_mortality, selected_genders)
    ELSE MonthFilter(MannerFilter(df_mortality, selected_manners), selected_months)

\* callbacks.py:42-56
update_map_filtered_df(selected_manners, selected_months, selected_genders) ==
    GenderFilter(MonthFilter(MannerFilter(df_mortality, selected_manners), selected_months),
                 selected_genders)

\* callbacks.py:85-101 and 130-146
update_monthly_chart_filtered_df(selected_depts, selected_genders) ==
    GenderFilter(DeptFilter(df_mortality, selected_depts), selected_genders)

FilteredAggregate(filtered_df, aggregates) ==
    {[raised |-> FALSE, df |-> d, filtered_df |-> filtered_df] : d \in aggregates}

InitFilters ==
    /\ df_mortality \in {AgeFile, GenderFile, AgeOutsideFile}
    /\ df_codes = CodesFile
    /\ df_divipola \in DivipolaFiles
    /\ observed = FALSE
    /\ pc = "serve"
    /\ event = [name |-> "idle", args |-> <<>>]
    /\ out = [raised |-> FALSE, df |-> <<>>, filtered_df |-> <<>>]

\* a callback from the dropdown change to its return
Filtered(name, args, raises, filtered_df, aggregates) ==
    /\ pc = "serve"
    /\ pc' = "returned"
    /\ event' = [name |-> name, args |-> args]
    /\ IF raises
       THEN out' = [raised |-> TRUE, df |-> <<>>, filtered_df |-> <<>>]
       ELSE \E o \in FilteredAggregate(filtered_df, aggregates) : out' = o
    /\ UNCHANGED <<df_mortality, df_codes, df_divipola, observed>>

filtered_update_map ==
    \E m \in SelManners, mo \in SelMonths, g \in SelGenders :
        LET filtered_df == update_map_filtered_df(m, mo, g)
        IN  Filtered("update_map", <<m, mo, g>>, MonthRaises(mo) \/ GenderRaises(g),
                     filtered_df, process_data_for_department_map(filtered_df, df_divipola))

filtered_update_monthly_chart ==
    \E d \in SelDepts, g \in SelGenders :
        LET filtered_df == update_monthly_chart_filtered_df(d, g)
        IN  Filtered("update_monthly_chart", <<d, g>>, GenderRaises(g),
                     filtered_df, process_data_for_monthly_deaths(filtered_df))

filtered_update_age_histogram ==
    \E d \in SelDepts, g \in SelGenders :
        LET filtered_df == update_monthly_chart_filtered_df(d, g)
        IN  Filtered("update_age_histogram", <<d, g>>, GenderRaises(g),
                     filtered_df, process_data_for_age_histogram(filtered_df, observed))

NextFilters ==
    \/ filtered_update_map
    \/ filtered_update_monthly_chart
    \/ filtered_update_age_histogram

SpecFilters == InitFilters /\ [][NextFilters]_vars

(***************************************************************************)
(* Properties.  What a selection asks for is stated on the records         *)
(* themselves (by label), independently of the translation the callbacks   *)
(* perform.                                                                *)
(***************************************************************************)
IsCallback == pc = "respond"

Arg(i) == event.args[i]

\* the selection names at least one value
Constrains(sel) == ~sel.none /\ Len(sel.list) > 0

\* the label is among the selected ones, or nothing is selected
Chosen(sel, label) == IF Constrains(sel) THEN label \in Range(sel.list) ELSE TRUE

\* the records with their departments when departments are selected
WithDepartments(sel) ==
    IF Constrains(sel)
    THEN SelectSeq(MergeLeft(df_mortality, df_divipola, "COD_DANE", "COD_DANE",
                             {"COD_DEPARTAMENTO", "DEPARTAMENTO"}),
                   LAMBDA r : r.DEPARTAMENTO \in Range(sel.list))
    ELSE df_mortality

KeptByGender(df, sel) ==
    SelectSeq(df, LAMBDA r : Chosen(sel, MapDict(gender_mapping, r.SEXO)))

KeptByMannerMonth(df, manners, months) ==
    SelectSeq(df, LAMBDA r : /\ Chosen(manners, r.MANERA_MUERTE)
                             /\ Chosen(months, MapDict(MONTH_NAMES, r.MES)))

\* the records the aggregation of the last event works on: the whole table
\* at startup, the records every non-empty selection admits in a callback
AggregationInput ==
    CASE event.name = "update_map" ->
             KeptByGender(KeptByMannerMonth(df_mortality, Arg(1), Arg(2)), Arg(3))
      [] event.name \in {"update_monthly_chart", "update_age_histogram"} ->
             KeptByGender(WithDepartments(Arg(1)), Arg(2))
      [] event.name = "update_violent_cities_chart" -> KeptByGender(df_mortality, Arg(2))
      [] event.name = "update_lowest_mortality_chart" -> KeptByGender(df_mortality, Arg(1))
      [] event.name = "update_gender_dept_chart" ->
             KeptByMannerMonth(df_mortality, Arg(1), Arg(2))
      [] OTHER -> df_mortality

\* the aggregates the pipeline of the last callback yields on AggregationInput
ExpectedAggregates ==
    CASE event.name = "update_map" ->
             process_data_for_department_map(AggregationInput, df_divipola)
      [] event.name = "update_monthly_chart" ->
             process_data_for_monthly_deaths(AggregationInput)
      [] event.name = "update_age_histogram" ->
             process_data_for_age_histogram(AggregationInput, observed)
      [] event.name = "update_violent_cities_chart" ->
             process_data_for_violent_cities(AggregationInput, df_divipola,
                                             List(SelectedCodes(Arg(1))))
      [] event.name = "update_lowest_mortality_chart" ->
             process_data_for_lowest_mortality_cities(AggregationInput, df_divipola)
      [] event.name = "update_gender_dept_chart" ->
             process_data_for_gender_department(AggregationInput, df_divipola)

SomeSelectionEmpty == \E i \in DOMAIN event.args : ~Constrains(Arg(i))

AllSelectionsEmpty == \A i \in DOMAIN event.args : ~Constrains(Arg(i))

\* C1: in every chart callback a selection that is None or an empty list
\* imposes no constraint: the aggregate is the one of the records the other
\* selections admit, and with every selection empty it is the aggregate of the
\* whole mortality table.
C1_EmptySelectionIsNoConstraint ==
    (IsCallback /\ ~out.raised /\ SomeSelectionEmpty) =>
        /\ out.df \in ExpectedAggregates
        /\ AllSelectionsEmpty => AggregationInput = df_mortality

\* C1 witness: update_map ran with None, an empty list and None on a table
\* with mapped records and returned a non-empty aggregate.
C1_Witness ==
    /\ IsCallback
    /\ event.name = "update_map"
    /\ Arg(1).none /\ ~Arg(2).none /\ Arg(2).list = <<>> /\ Arg(3).none
    /\ ~out.raised
    /\ Len(out.df) = 2

\* C5: after startup every filter-change event ends with an aggregate,
\* whatever values are selected; no callback raises.
C5_NoCallbackRaises == IsCallback => ~out.raised

\* the top-causes row of a cause code, as a set (empty when there is none)
CauseRows(code) == {i \in DOMAIN out.df : out.df[i]["Código"] = code}

DistinctValues(df, col) == {df[i][col] : i \in DOMAIN df}

\* C2: process_data_for_top_causes counts a record whose cause code is not in
\* the cause-code table under its raw code: when the table has at most ten
\* causes, every cause code of the input has a row carrying the number of its
\* records.
C2_UnmatchedCauseCounted ==
    (event.name = "top_causes"
       /\ Cardinality(DistinctValues(df_mortality, "COD_MUERTE")) <= TopCauses) =>
        \A code \in DistinctValues(df_mortality, "COD_MUERTE") :
            \E i \in CauseRows(code) :
                out.df[i]["Total de Casos"] = CountRows(df_mortality, "COD_MUERTE", code)

\* the count the age histogram reports for a bucket (0 when it has no row)
BucketCount(label) ==
    IF \E i \in DOMAIN out.df : out.df[i].AGE_GROUP = label
    THEN out.df[CHOOSE i \in DOMAIN out.df : out.df[i].AGE_GROUP = label].COUNT
    ELSE 0

\* C3: the last bucket of the age histogram is unbounded above: every record
\* whose age value is at least 100 is counted in "100+".
C3_LastBucketUnbounded ==
    (event.name \in {"deaths_by_age", "update_age_histogram"} /\ ~out.raised) =>
        BucketCount("100+") =
            Len(SelectSeq(AggregationInput, LAMBDA r : r.GRUPO_EDAD1 >= 100))

HasSep(text) == \E i \in DOMAIN text : text[i] = Sep

\* the pieces of a text that precede its first separator
BeforeSep(text) ==
    LET k == CHOOSE i \in DOMAIN text : text[i] = Sep /\ \A j \in 1..(i - 1) : text[j] # Sep
    IN  [i \in 1..(k - 1) |-> text[i]]

IsViolentCallback == IsCallback /\ event.name = "update_violent_cities_chart"

GendersKnown(sel) == \A i \in DOMAIN sel.list : sel.list[i] \in Range(gender_mapping)

\* C4 as stated: a selected cause value without the " - " separator is
\* dropped; it adds no code, and the other values are translated and applied.
C4_UnparsableSelectionDropped ==
    (IsViolentCallback /\ ~out.raised) =>
        LET parsable == SelectSeq(Arg(1).list, HasSep)
        IN  out.df \in process_data_for_violent_cities(
                          AggregationInput, df_divipola,
                          List([i \in DOMAIN parsable |-> Concat(BeforeSep(parsable[i]))]))

\* C4 amended: a selected cause value without the " - " separator is not
\* dropped: the whole value is taken as a cause code; the translation does not
\* fail, and the other values are translated and applied.
C4_SelectionWithoutSeparatorIsTheCode ==
    (IsViolentCallback /\ GendersKnown(Arg(2))
       /\ \E i \in DOMAIN Arg(1).list : ~HasSep(Arg(1).list[i])) =>
        /\ ~out.raised
        /\ out.df \in process_data_for_violent_cities(
                         AggregationInput, df_divipola,
                         List([i \in DOMAIN Arg(1).list |->
                                 IF HasSep(Arg(1).list[i])
                                 THEN Concat(BeforeSep(Arg(1).list[i]))
                                 ELSE Concat(Arg(1).list[i])]))

\* C4 witness: the selection held "X954" without a separator beside a
\* well-formed label of X994, and homicides of both codes were counted.
C4_Witness ==
    /\ IsViolentCallback
    /\ ~out.raised
    /\ Len(Arg(1).list) = 2
    /\ ~HasSep(Arg(1).list[2])
    /\ HasSep(Arg(1).list[1])
    /\ \E i \in DOMAIN out.df : out.df[i].HOMICIDES = 2
    /\ \E i \in DOMAIN AggregationInput :
          AggregationInput[i].COD_MUERTE = "X954" /\ AggregationInput[i].MANERA_MUERTE = "Homicidio"
    /\ \E i \in DOMAIN AggregationInput :
          AggregationInput[i].COD_MUERTE = "X994" /\ AggregationInput[i].MANERA_MUERTE = "Homicidio"

RECURSIVE SumCol(_, _)
SumCol(df, col) == IF df = <<>> THEN 0 ELSE Head(df)[col] + SumCol(Tail(df), col)

IsViolentAggregate ==
    (pc = "L31" /\ event.name = "top_violent_cities") \/ (IsViolentCallback /\ ~out.raised)

\* the cause codes handed to process_data_for_violent_cities by the last event
ViolentCodes == IF event.name = "update_violent_cities_chart" THEN SelectedCodes(Arg(1)) ELSE <<>>

\* homicide, and of a supplied cause code when codes are supplied
IsSelectedHomicide(r) ==
    /\ r.MANERA_MUERTE = "Homicidio"
    /\ Len(ViolentCodes) > 0 => r.COD_MUERTE \in Range(ViolentCodes)

\* C6 as stated: a record is counted if and only if it is a homicide and,
\* when cause codes are supplied, its cause code is among them: when no
\* municipality is cut off, the counts add up to the number of such records.
C6_CountsExactlyTheSelectedHomicides ==
    (IsViolentAggregate /\ Len(out.df) < TopViolent) =>
        SumCol(out.df, "HOMICIDES") = Len(SelectSeq(AggregationInput, IsSelectedHomicide))

RECURSIVE SumSeq(_)
SumSeq(ns) == IF ns = <<>> THEN 0 ELSE Head(ns) + SumSeq(Tail(ns))

\* how often the records of df meet a division entry of the municipality
Matches(df, city) ==
    LET entries == SelectSeq(df_divipola, LAMBDA e : e.MUNICIPIO = city)
    IN  SumSeq([j \in 1..Len(entries) |->
                   Len(SelectSeq(df, LAMBDA r : r.COD_DANE = entries[j].COD_DANE))])

\* C6 amended: a record is counted if and only if it is a homicide, its cause
\* code is among the supplied ones when codes are supplied, and its division
\* code has an entry in the division table; it is counted under the
\* municipality of each such entry.  Records of any other manner of death are
\* never counted.
C6_CountsTheSelectedHomicidesWithAMunicipality ==
    IsViolentAggregate =>
        LET codes == ViolentCodes
            selected == SelectSeq(AggregationInput,
                            LAMBDA r : /\ r.MANERA_MUERTE = "Homicidio"
                                       /\ Len(codes) > 0 => r.COD_MUERTE \in Range(codes))
        IN  /\ \A i \in DOMAIN out.df :
                  out.df[i].HOMICIDES = Matches(selected, out.df[i].MUNICIPIO)
            /\ Len(out.df) < TopViolent =>
                  \A city \in Range(MunicipalityOrder) :
                      Matches(selected, city) > 0 =>
                          \E i \in DOMAIN out.df : out.df[i].MUNICIPIO = city

\* C6 witness: with a cause code selected, a homicide of that code, a homicide
\* of another code and a suicide of that code in one municipality give count 1.
C6_Witness ==
    /\ IsViolentCallback
    /\ ~out.raised
    /\ ViolentCodes = <<"X954">>
    /\ out.df = <<[MUNICIPIO |-> "MEDELLIN", HOMICIDES |-> 1]>>
    /\ \E i \in DOMAIN AggregationInput :
          AggregationInput[i].MANERA_MUERTE = "Suicidio" /\ AggregationInput[i].COD_MUERTE = "X954"
    /\ \E i \in DOMAIN AggregationInput :
          AggregationInput[i].MANERA_MUERTE = "Homicidio" /\ AggregationInput[i].COD_MUERTE = "X994"

IsAggregate ==
    \/ pc \in {"L28", "L29", "L30", "L31", "L32", "L33", "L105"}
    \/ (IsCallback /\ ~out.raised)

IsAgeAggregate == IsAggregate /\ event.name \in {"deaths_by_age", "update_age_histogram"}

\* the grouping columns of the last aggregate
KeyColumns ==
    CASE event.name \in {"deaths_by_dept", "update_map"} -> <<"DEPARTAMENTO">>
      [] event.name \in {"deaths_by_month", "update_monthly_chart"} -> <<"MES">>
      [] event.name \in {"deaths_by_age", "update_age_histogram"} -> <<"AGE_GROUP">>
      [] event.name \in {"top_violent_cities", "update_violent_cities_chart",
                         "lowest_mortality_cities", "update_lowest_mortality_chart"} ->
             <<"MUNICIPIO">>
      [] event.name = "top_causes" -> <<"Código", "Descripción">>
      [] event.name \in {"deaths_by_dept_gender", "update_gender_dept_chart"} ->
             <<"DEPARTAMENTO", "GENDER">>

\* the values the grouping columns take on the records of AggregationInput
InputKeys ==
    LET in == AggregationInput
        Entries(r) == {df_divipola[j] : j \in {k \in DOMAIN df_divipola :
                                                  df_divipola[k].COD_DANE = r.COD_DANE}}
    IN  CASE event.name \in {"deaths_by_dept", "update_map"} ->
                 UNION {{<<e.DEPARTAMENTO>> : e \in Entries(in[i])} : i \in DOMAIN in}
          [] event.name \in {"deaths_by_month", "update_monthly_chart"} ->
                 {<<in[i].MES>> : i \in DOMAIN in}
          [] event.name \in {"deaths_by_age", "update_age_histogram"} ->
                 {<<Cut(in[i].GRUPO_EDAD1, age_bins, age_labels)>> : i \in DOMAIN in}
          [] event.name \in {"top_violent_cities", "update_violent_cities_chart",
                             "lowest_mortality_cities", "update_lowest_mortality_chart"} ->
                 UNION {{<<e.MUNICIPIO>> : e \in Entries(in[i])} : i \in DOMAIN in}
          [] event.name = "top_causes" ->
                 UNION {{<<in[i].COD_MUERTE, c[DescriptionColumn]>> :
                            c \in {d \in Range(df_codes) : d[CodeColumn] = in[i].COD_MUERTE}}
                        : i \in DOMAIN in}
          [] event.name \in {"deaths_by_dept_gender", "update_gender_dept_chart"} ->
                 UNION {{<<e.DEPARTAMENTO, MapDict(gender_mapping, in[i].SEXO)>> :
                            e \in Entries(in[i])} : i \in DOMAIN in}

OutputKey(row) == [k \in DOMAIN KeyColumns |-> row[KeyColumns[k]]]

\* at most one row per value present in the input, none for a value absent
RowsWithinInputKeys(rows) ==
    /\ Len(rows) <= Cardinality(InputKeys)
    /\ \A i \in DOMAIN rows : OutputKey(rows[i]) \in InputKeys

\* C7 as stated: for every aggregation the number of output rows never
\* exceeds the number of distinct values of the grouping column present in the
\* filtered input, and no row exists for a group with no input record.
C7_RowsWithinDistinctInputValues == IsAggregate => RowsWithinInputKeys(out.df)

\* C7 amended: that holds for the department, month, municipality, cause and
\* department x gender aggregates; the age histogram has at most the 21 fixed
\* buckets: all 21 where pandas groups a categorical with observed=False (a
\* bucket with no record has count 0), only the buckets present otherwise.
C7_RowsWithinDistinctInputValuesButAge ==
    IsAggregate =>
        IF IsAgeAggregate /\ ~observed
        THEN /\ Len(out.df) = Len(age_labels)
             /\ RowsWithinInputKeys(SelectSeq(out.df, LAMBDA row : row.COUNT > 0))
        ELSE RowsWithinInputKeys(out.df)

\* C7 witness: three records with three distinct (department, gender) values,
\* one of them with a missing department or gender, give two rows.
C7_Witness ==
    /\ IsAggregate
    /\ event.name = "update_gender_dept_chart"
    /\ Len(AggregationInput) = 3
    /\ Len(out.df) = 2
    /\ Cardinality(InputKeys) = 3

\* the number of distinct groups the input of a top-N aggregate has
InputGroups ==
    CASE event.name = "top_causes" -> Cardinality(DistinctValues(df_mortality, "COD_MUERTE"))
      [] event.name \in {"lowest_mortality_cities", "update_lowest_mortality_chart"} ->
             Cardinality({c \in Range(MunicipalityOrder) : Matches(AggregationInput, c) > 0})
      [] event.name \in {"top_violent_cities", "update_violent_cities_chart"} ->
             LET codes == ViolentCodes
                 selected == SelectSeq(AggregationInput,
                                 LAMBDA r : /\ r.MANERA_MUERTE = "Homicidio"
                                            /\ Len(codes) > 0 => r.COD_MUERTE \in Range(codes))
             IN  Cardinality({c \in Range(MunicipalityOrder) : Matches(selected, c) > 0})

TopN ==
    CASE event.name = "top_causes" -> TopCauses
      [] event.name \in {"lowest_mortality_cities", "update_lowest_mortality_chart"} -> TopLowest
      [] event.name \in {"top_violent_cities", "update_violent_cities_chart"} -> TopViolent

IsTopNAggregate ==
    /\ IsAggregate
    /\ event.name \in {"top_causes", "lowest_mortality_cities", "update_lowest_mortality_chart",
                       "top_violent_cities", "update_violent_cities_chart"}

\* C8: the violent-cities (N = 5), lowest-mortality (N = 10) and top-causes
\* (N = 10) aggregates have at most N rows, and fewer than N only if the input
\* has fewer than N distinct groups.
C8_TopNRowsUnlessFewerGroups ==
    IsTopNAggregate =>
        /\ Len(out.df) <= TopN
        /\ Len(out.df) < TopN => InputGroups < TopN

IsMonthlyAggregate ==
    IsAggregate /\ event.name \in {"deaths_by_month", "update_monthly_chart"}

Reverse(df) == [i \in 1..Len(df) |-> df[Len(df) + 1 - i]]

SwapAt(df, k) ==
    [i \in 1..Len(df) |-> IF i = k THEN df[k + 1] ELSE IF i = k + 1 THEN df[k] ELSE df[i]]

\* reorderings of a table: the reversal, and every exchange of two
\* neighbours (which generate all permutations) when the table is short
Reorderings(df) ==
    {Reverse(df)} \cup
    (IF Len(df) <= MaxRecords + 1 THEN {SwapAt(df, k) : k \in 1..(Len(df) - 1)} ELSE {})

\* C9: the monthly aggregate is sorted by strictly increasing month number
\* whatever the order of the input rows: reordering the input records does
\* not change it.
C9_MonthlySortedWhateverTheInputOrder ==
    IsMonthlyAggregate =>
        /\ \A i \in 1..(Len(out.df) - 1) : out.df[i].MES < out.df[i + 1].MES
        /\ \A p \in Reorderings(AggregationInput) :
              process_data_for_monthly_deaths(p) = {out.df}

\* C9 witness: the input has a December record before a January record and
\* the aggregate lists January first.
C9_Witness ==
    /\ IsMonthlyAggregate
    /\ Len(AggregationInput) >= 2
    /\ AggregationInput[1].MES = 12
    /\ AggregationInput[2].MES = 1
    /\ Len(out.df) = 2
    /\ out.df[1].MES = 1

IsDepartmentAggregate == IsAggregate /\ event.name \in {"deaths_by_dept", "update_map"}

\* the division entries a record's division code reaches
EntriesOf(r) == SelectSeq(df_divipola, LAMBDA e : e.COD_DANE = r.COD_DANE)

\* the departments named in the division table
DepartmentNames == {df_divipola[j].DEPARTAMENTO : j \in DOMAIN df_divipola} \ {NULL}

\* how often the records of df reach a division entry of the department
MappedTo(df, dept) ==
    SumSeq([i \in 1..Len(df) |->
               Len(SelectSeq(EntriesOf(df[i]), LAMBDA e : e.DEPARTAMENTO = dept))])

\* C11: process_data_for_department_map returns exactly one row per department
\* name reached by the division codes of the input records, with the count of
\* the records mapped to it (one per division entry reached); a record whose
\* division code has no entry, or whose entry has no department, is in no row.
C11_OneRowPerDepartmentReached ==
    IsDepartmentAggregate =>
        /\ \A i \in DOMAIN out.df : out.df[i].DEPARTAMENTO \in DepartmentNames
        /\ \A dept \in DepartmentNames :
              LET n == MappedTo(AggregationInput, dept)
                  rows == {i \in DOMAIN out.df : out.df[i].DEPARTAMENTO = dept}
              IN  IF n = 0 THEN rows = {}
                  ELSE /\ Cardinality(rows) = 1
                       /\ \A i \in rows : out.df[i].TOTAL_DEATHS = n
        /\ (\A i \in DOMAIN AggregationInput : Len(EntriesOf(AggregationInput[i])) <= 1) =>
              SumCol(out.df, "TOTAL_DEATHS") =
                  Len(SelectSeq(AggregationInput,
                                LAMBDA r : \E j \in DOMAIN df_divipola :
                                               /\ df_divipola[j].COD_DANE = r.COD_DANE
                                               /\ df_divipola[j].DEPARTAMENTO # NULL))

\* C11 witness: three records, two of them in one department through two
\* division codes and one with a division code the table does not hold, give
\* the single row of that department with count 2.
C11_Witness ==
    /\ IsDepartmentAggregate
    /\ Len(AggregationInput) = 3
    /\ \E i, j, k \in DOMAIN AggregationInput :
          /\ AggregationInput[i].COD_DANE = "05001"
          /\ AggregationInput[j].COD_DANE = "05088"
          /\ AggregationInput[k].COD_DANE = "99999"
    /\ out.df = <<[DEPARTAMENTO |-> "ANTIOQUIA", TOTAL_DEATHS |-> 2]>>

\* the label "L-(L+4)" of the five-year bucket that starts at L
BucketLabel(L) == ToString(L) \o "-" \o ToString(L + 4)

Ages(df) == [i \in 1..Len(df) |-> df[i].GRUPO_EDAD1]

\* C12: in the age histogram a record with age value a, 0 <= a < 100, is
\* counted in exactly one bucket, the one labelled "L-(L+4)" with
\* L = 5 * floor(a / 5) (a boundary value belongs to the bucket that starts
\* there), and the ages 2, 7, 23, 101 give "0-4": 1, "5-9": 1, "20-24": 1,
\* "100+": 1 and nothing else.
C12_AgeBelow100InItsFiveYearBucket ==
    IsAgeAggregate =>
        /\ \A label \in Range(age_labels) :
              Cardinality({i \in DOMAIN out.df : out.df[i].AGE_GROUP = label}) <= 1
        /\ \A k \in 0..19 :
              BucketCount(BucketLabel(5 * k)) =
                  Len(SelectSeq(AggregationInput, LAMBDA r : r.GRUPO_EDAD1 \div 5 = k))
        /\ BucketCount("100+") <=
              Len(SelectSeq(AggregationInput, LAMBDA r : r.GRUPO_EDAD1 >= 100))
        /\ Ages(AggregationInput) = <<2, 7, 23, 101>> =>
              \A label \in Range(age_labels) :
                  BucketCount(label) =
                      IF label \in {"0-4", "5-9", "20-24", "100+"} THEN 1 ELSE 0

\* C12 witness: the startup histogram of the records aged 2, 7, 23 and 101.
C12_Witness ==
    /\ IsAgeAggregate
    /\ event.name = "deaths_by_age"
    /\ Ages(AggregationInput) = <<2, 7, 23, 101>>
    /\ BucketCount("0-4") = 1
    /\ BucketCount("5-9") = 1
    /\ BucketCount("20-24") = 1
    /\ BucketCount("100+") = 1
    /\ SumCol(out.df, "COUNT") = 4

HasGenderFilter ==
    event.name \in {"update_map", "update_monthly_chart", "update_age_histogram",
                    "update_violent_cities_chart", "update_lowest_mortality_chart"}

\* the gender selection of the last callback
GenderSelection ==
    CASE event.name = "update_map" -> Arg(3)
      [] event.name = "update_lowest_mortality_chart" -> Arg(1)
      [] OTHER -> Arg(2)

\* the sex codes whose label in gender_mapping is selected
SelectedSexCodes(sel) == {k \in DOMAIN gender_mapping : gender_mapping[k] \in Range(sel.list)}

IsGenderFiltered ==
    /\ IsCallback
    /\ HasGenderFilter
    /\ Constrains(GenderSelection)
    /\ GendersKnown(GenderSelection)

\* C13: the gender filter translation maps the selected gender labels to
\* exactly the sex codes whose label in gender_mapping is selected
\* ({"Masculino"} gives {1} only), and the callback keeps exactly the records
\* whose sex code is in that set.
C13_GenderSelectionKeepsItsSexCodes ==
    IsGenderFiltered =>
        LET sel == GenderSelection
            codes == Translate(sel, InvertDict(gender_mapping))
        IN  /\ Range(codes) = SelectedSexCodes(sel)
            /\ Range(sel.list) = {"Masculino"} => Range(codes) = {1}
            /\ GenderFilter(df_mortality, sel) =
                   SelectSeq(df_mortality, LAMBDA r : r.SEXO \in SelectedSexCodes(sel))
            /\ ~out.raised => out.df \in ExpectedAggregates

\* C13 witness: with "Masculino" selected, the lowest-mortality aggregate of a
\* table with one male death in Medellin and one female death in Bello is the
\* single row of Medellin.
C13_Witness ==
    /\ IsGenderFiltered
    /\ event.name = "update_lowest_mortality_chart"
    /\ GenderSelection.list = <<"Masculino">>
    /\ \E i, j \in DOMAIN df_mortality :
          /\ df_mortality[i].SEXO = 1 /\ df_mortality[i].COD_DANE = "05001"
          /\ df_mortality[j].SEXO = 2 /\ df_mortality[j].COD_DANE = "05088"
    /\ df_divipola = DivipolaUnique
    /\ out.df = <<[MUNICIPIO |-> "MEDELLIN", DEATHS |-> 1]>>

\* C14: for the month and gender lookup tables, translating a set of display
\* labels to codes through the inverted table and mapping the codes back
\* through the table recovers exactly the original label set; the inverse
\* loses no entry (as many codes as labels).
C14_LabelsToCodesAndBack ==
    /\ pc = "codes" =>
          /\ Cardinality(Range(out.df)) = Len(event.args[1].list)
          /\ Range(out.df) \subseteq DOMAIN LookupTable(event.name)
    /\ pc = "mapped" =>
          /\ ~out.raised
          /\ Range(out.df) = Range(event.args[1].list)
          /\ out.df = event.args[1].list

\* C14 witness: the twelve month names came back from their twelve codes.
C14_Witness ==
    /\ pc = "mapped"
    /\ event.name = "MONTH_NAMES"
    /\ Len(event.args[1].list) = 12
    /\ out.df = MONTH_NAMES

\* the three tables are the content of three files
TablesLoaded ==
    /\ df_mortality \in MortalityFiles
    /\ df_divipola \in DivipolaFiles
    /\ df_codes = CodesFile

C16_TablesNeverMutated ==
    [][pc # "L24" => /\ df_mortality' = df_mortality
                     /\ df_codes' = df_codes
                     /\ df_divipola' = df_divipola]_vars

\* C16 witness: the age histogram callback has run with a department and a
\* gender selected, and the records of the mortality table still have the six
\* columns they were loaded with.
C16_Witness ==
    /\ IsCallback
    /\ event.name = "update_age_histogram"
    /\ Constrains(Arg(1)) /\ Constrains(Arg(2))
    /\ ~out.raised
    /\ SumCol(out.df, "COUNT") > 0
    /\ df_mortality \in MortalityFiles
    /\ \A i \in DOMAIN df_mortality :
          DOMAIN df_mortality[i] =
              {"COD_DANE", "MES", "COD_MUERTE", "MANERA_MUERTE", "GRUPO_EDAD1", "SEXO"}

\* the homicides the violent-cities pipeline of the last event keeps
SurvivingHomicides ==
    LET codes == ViolentCodes
    IN  SelectSeq(AggregationInput,
                  LAMBDA r : /\ r.MANERA_MUERTE = "Homicidio"
                             /\ Len(codes) > 0 => r.COD_MUERTE \in Range(codes))

\* C17: process_data_for_violent_cities returns the municipalities with the
\* highest homicide counts in non-increasing order of count: each returned
\* count is the number of surviving homicide records of the municipality, and
\* every municipality left out has a count less than or equal to that of every
\* municipality returned.
C17_ViolentCitiesHighestFirst ==
    IsViolentAggregate =>
        LET selected == SurvivingHomicides
            count == [c \in Range(MunicipalityOrder) |-> Matches(selected, c)]
            returned == {out.df[i].MUNICIPIO : i \in DOMAIN out.df}
        IN  /\ \A i \in 1..(Len(out.df) - 1) : out.df[i].HOMICIDES >= out.df[i + 1].HOMICIDES
            /\ Cardinality(returned) = Len(out.df)
            /\ returned \subseteq Range(MunicipalityOrder)
            /\ \A i \in DOMAIN out.df :
                  /\ out.df[i].HOMICIDES = count[out.df[i].MUNICIPIO]
                  /\ out.df[i].HOMICIDES > 0
            /\ \A c \in Range(MunicipalityOrder) \ returned :
                  /\ \A i \in DOMAIN out.df : count[c] <= out.df[i].HOMICIDES
                  /\ count[c] > 0 => Len(out.df) = TopViolent

\* C17 witness: of twelve municipalities with homicides the five with the most
\* are returned, Bogota with 12 first and Pereira with 8 last.
C17_Witness ==
    /\ IsViolentAggregate
    /\ event.name = "top_violent_cities"
    /\ Cardinality({c \in Range(MunicipalityOrder) : Matches(SurvivingHomicides, c) > 0}) = 12
    /\ Len(out.df) = 5
    /\ out.df[1] = [MUNICIPIO |-> "BOGOTA", HOMICIDES |-> 12]
    /\ out.df[5] = [MUNICIPIO |-> "PEREIRA", HOMICIDES |-> 8]

\* the column of the last top-N aggregate that names the group
GroupColumn == IF event.name = "top_causes" THEN "Código" ELSE "MUNICIPIO"

\* the column of the last top-N aggregate that holds the count
CountColumn ==
    CASE event.name = "top_causes" -> "Total de Casos"
      [] event.name \in {"lowest_mortality_cities", "update_lowest_mortality_chart"} -> "DEATHS"
      [] event.name \in {"top_violent_cities", "update_violent_cities_chart"} -> "HOMICIDES"

\* the place of a group before sorting: groupby lists the groups by sorted key
PlaceBeforeSort(row) ==
    LET order == IF event.name = "top_causes" THEN CauseOrder ELSE MunicipalityOrder
    IN  CHOOSE k \in DOMAIN order : order[k] = row[GroupColumn]

\* C18: in the sorted top-N slices two groups with equal counts keep the
\* relative order they had before sorting, so that the same input always
\* yields the same rows in the same order.
C18_TiesKeepTheOrderBeforeSorting ==
    IsTopNAggregate =>
        \A i, j \in DOMAIN out.df :
            (i < j /\ out.df[i][CountColumn] = out.df[j][CountColumn]) =>
                PlaceBeforeSort(out.df[i]) < PlaceBeforeSort(out.df[j])

IsLowestAggregate ==
    IsAggregate /\ event.name \in {"lowest_mortality_cities", "update_lowest_mortality_chart"}

\* C19: process_data_for_lowest_mortality_cities returns the municipalities
\* with the smallest death counts in non-decreasing order of count; every
\* returned municipality has at least one recorded death, and every
\* municipality with deaths that is left out has a count greater than or equal
\* to that of every returned one.
C19_LowestCitiesSmallestFirst ==
    IsLowestAggregate =>
        LET count == [c \in Range(MunicipalityOrder) |-> Matches(AggregationInput, c)]
            returned == {out.df[i].MUNICIPIO : i \in DOMAIN out.df}
        IN  /\ \A i \in 1..(Len(out.df) - 1) : out.df[i].DEATHS <= out.df[i + 1].DEATHS
            /\ Cardinality(returned) = Len(out.df)
            /\ returned \subseteq Range(MunicipalityOrder)
            /\ \A i \in DOMAIN out.df :
                  /\ out.df[i].DEATHS = count[out.df[i].MUNICIPIO]
                  /\ out.df[i].DEATHS >= 1
            /\ \A c \in Range(MunicipalityOrder) \ returned :
                  count[c] > 0 =>
                      /\ \A i \in DOMAIN out.df : count[c] >= out.df[i].DEATHS
                      /\ Len(out.df) = TopLowest

\* C19 witness: of twelve municipalities with deaths the ten with the fewest
\* are returned, Soledad with 1 first; Bogota with 12 and one of the two
\* municipalities with 10 are left out.
C19_Witness ==
    /\ IsLowestAggregate
    /\ event.name = "lowest_mortality_cities"
    /\ Cardinality({c \in Range(MunicipalityOrder) : Matches(AggregationInput, c) > 0}) = 12
    /\ Len(out.df) = 10
    /\ out.df[1] = [MUNICIPIO |-> "SOLEDAD", DEATHS |-> 1]
    /\ out.df[10].DEATHS = 10
    /\ \A i \in DOMAIN out.df : out.df[i].MUNICIPIO # "BOGOTA"

IsGenderDepartmentAggregate ==
    IsAggregate /\ event.name \in {"deaths_by_dept_gender", "update_gender_dept_chart"}

\* C20: process_data_for_gender_department counts each record under the pair
\* (department of its division code, gender label of its sex code); a record
\* whose sex code is not 1, 2 or 3, or whose division code is unmatched, is
\* counted in no row.
C20_CountedUnderDepartmentAndGender ==
    IsGenderDepartmentAggregate =>
        /\ \A i \in DOMAIN out.df :
              /\ out.df[i].DEPARTAMENTO \in DepartmentNames
              /\ out.df[i].GENDER \in {"Masculino", "Femenino", "Indeterminado"}
        /\ \A dept \in DepartmentNames, sex \in 1..3 :
              LET label == CASE sex = 1 -> "Masculino"
                             [] sex = 2 -> "Femenino"
                             [] sex = 3 -> "Indeterminado"
                  n == MappedTo(SelectSeq(AggregationInput, LAMBDA r : r.SEXO = sex), dept)
                  rows == {i \in DOMAIN out.df : /\ out.df[i].DEPARTAMENTO = dept
                                                 /\ out.df[i].GENDER = label}
              IN  IF n = 0 THEN rows = {}
                  ELSE /\ Cardinality(rows) = 1
                       /\ \A i \in rows : out.df[i].COUNT = n
        /\ (\A i \in DOMAIN AggregationInput : Len(EntriesOf(AggregationInput[i])) <= 1) =>
              SumCol(out.df, "COUNT") =
                  Len(SelectSeq(AggregationInput,
                                LAMBDA r : /\ r.SEXO \in {1, 2, 3}
                                           /\ \E j \in DOMAIN df_divipola :
                                                 /\ df_divipola[j].COD_DANE = r.COD_DANE
                                                 /\ df_divipola[j].DEPARTAMENTO # NULL))

\* C20 witness: of six records, one with sex code 9 in a known municipality
\* and one with a known sex code in an unknown division are in no row; the
\* other four make three rows.
C20_Witness ==
    /\ IsGenderDepartmentAggregate
    /\ event.name = "deaths_by_dept_gender"
    /\ Len(AggregationInput) = 6
    /\ \E i \in DOMAIN AggregationInput :
          AggregationInput[i].SEXO = 9 /\ AggregationInput[i].COD_DANE = "05001"
    /\ \E i \in DOMAIN AggregationInput :
          AggregationInput[i].SEXO = 2 /\ AggregationInput[i].COD_DANE = "99999"
    /\ out.df = << [DEPARTAMENTO |-> "ANTIOQUIA", GENDER |-> "Femenino", COUNT |-> 1],
                   [DEPARTAMENTO |-> "ANTIOQUIA", GENDER |-> "Masculino", COUNT |-> 2],
                   [DEPARTAMENTO |-> "VALLE", GENDER |-> "Indeterminado", COUNT |-> 1] >>

\* the options the labels of the last translation were selected from
OptionsBuilt == get_homicide_codes_with_descriptions(df_mortality, df_codes)

\* C21: for a selected value "<code> - <description>" the translation
\* yields the text before the first " - " as the cause code, also when the
\* description itself holds " - "; on the labels built by
\* get_homicide_codes_with_descriptions it yields exactly the code each label
\* was built from.
C21_LabelGivesBackItsCode ==
    pc = "translated" =>
        LET selected == event.args[1].list
        IN  /\ Len(out.df) = Len(selected)
            /\ \A i \in DOMAIN selected :
                  /\ out.df[i] = Concat(BeforeSep(selected[i]))
                  /\ \E k \in DOMAIN OptionsBuilt :
                        /\ OptionsBuilt[k].label = selected[i]
                        /\ OptionsBuilt[k].value = out.df[i]

\* C21 witness: the label of X994, whose description holds two separators,
\* was selected alone and translated to "X994".
C21_Witness ==
    /\ pc = "translated"
    /\ event.args[1].list =
          << <<"X994", Sep, "agresion", Sep, "X994", Sep, "otros">> >>
    /\ out.df = <<"X994">>

\* the age value is missing or lies below every bin
MissingOrNegative(r) == r.GRUPO_EDAD1 = NaN \/ r.GRUPO_EDAD1 < 0

\* C22: in the age histogram a record whose age value is missing or lies
\* outside all bins (negative) is counted in no bucket and raises no error, and
\* the counts of the other records are as if it were not there.
C22_AgeOutsideBinsCountedNowhere ==
    IsAgeAggregate =>
        LET others == SelectSeq(AggregationInput, LAMBDA r : ~MissingOrNegative(r))
        IN  /\ \A i \in DOMAIN out.df : out.df[i].AGE_GROUP \in Range(age_labels)
            /\ SumCol(out.df, "COUNT") <= Len(others)
            /\ (\A i \in DOMAIN others : others[i].GRUPO_EDAD1 < 100) =>
                  SumCol(out.df, "COUNT") = Len(others)
            /\ process_data_for_age_histogram(others, observed) = {out.df}

\* C22 witness: of seven records, the one aged -1 and the one without an age
\* are in no bucket; 42 and 44 are in "40-44" and 99 in "95-99".
C22_Witness ==
    /\ IsAgeAggregate
    /\ event.name = "deaths_by_age"
    /\ Len(AggregationInput) = 7
    /\ \E i \in DOMAIN AggregationInput : AggregationInput[i].GRUPO_EDAD1 = -1
    /\ \E i \in DOMAIN AggregationInput : AggregationInput[i].GRUPO_EDAD1 = NaN
    /\ BucketCount("0-4") = 0
    /\ BucketCount("40-44") = 2
    /\ BucketCount("95-99") = 1

ChartDrawn == pc = "drawn" /\ event.name = "create_gender_department_chart"

\* the departments of a department x gender frame
DepartmentsOf(df) == {df[i].DEPARTAMENTO : i \in DOMAIN df}

\* the total of one department over its genders
TotalOf(df, dept) == SumCol(SelectSeq(df, LAMBDA r : r.DEPARTAMENTO = dept), "COUNT")

\* C23: the rows create_gender_department_chart draws are exactly the rows of
\* the aggregate it was given whose department is one of the 10 departments
\* with the highest total over genders (every department when there are 10 or
\* fewer), in the same order and with the same counts.
C23_ChartKeepsTheTenLargestDepartments ==
    ChartDrawn =>
        LET given == event.args[1]
            kept == DepartmentsOf(out.df)
        IN  /\ out.df = SelectSeq(given, LAMBDA r : r.DEPARTAMENTO \in kept)
            /\ Cardinality(kept) = Min2(10, Cardinality(DepartmentsOf(given)))
            /\ \A k \in kept, d \in DepartmentsOf(given) \ kept :
                  TotalOf(given, d) <= TotalOf(given, k)

C23_Witness ==
    /\ ChartDrawn
    /\ Cardinality(DepartmentsOf(event.args[1])) = 12
    /\ Cardinality(DepartmentsOf(out.df)) = 10
    /\ "ANTIOQUIA" \notin DepartmentsOf(out.df)
    /\ "TOLIMA" \in DepartmentsOf(out.df)
    /\ \E i \in DOMAIN out.df : out.df[i].GENDER = "Femenino" /\ out.df[i].COUNT > 1

\* what the callback of thread t returns when it runs with no other callback
Alone(t) ==
    IF event[t].name = "update_monthly_chart"
    THEN update_monthly_chart(event[t].args[1], event[t].args[2])
    ELSE update_violent_cities_chart(event[t].args[1], event[t].args[2])

\* the frame thread t holds at its position when it only ever saw the base
\* table and its own selections
OwnView(t) ==
    LET after_depts == IF event[t].name = "update_monthly_chart"
                       THEN DeptFilter(df_mortality, event[t].args[1])
                       ELSE df_mortality
    IN  CASE pc[t] = "depts" -> df_mortality
          [] pc[t] = "genders" -> after_depts
          [] pc[t] = "process" -> GenderFilter(after_depts, event[t].args[2])

\* C24: with callbacks running at the same time over the shared tables, in
\* every interleaving of their statements, the base table stays as loaded,
\* each thread's local frame is the one its own selections give, and each
\* thread returns what its callback returns when run alone.
C24_ConcurrentCallbacksReturnAsAlone ==
    /\ df_mortality \in {GenderFile, WideFile}
    /\ \A t \in Threads :
          /\ pc[t] \in {"depts", "genders", "process"} => out[t] = Returned(OwnView(t))
          /\ pc[t] = "returned" => out[t] \in Alone(t)

C24_Witness ==
    /\ df_mortality = WideFile
    /\ pc[1] = "returned" /\ pc[2] = "process"
    /\ event[1] = [name |-> "update_monthly_chart",
                   args |-> <<List(<<"ANTIOQUIA">>), List(<<"Masculino">>)>>]
    /\ event[2] = [name |-> "update_violent_cities_chart",
                   args |-> <<None, List(<<"Femenino", "Masculino">>)>>]
    /\ ~out[1].raised /\ out[1].df # <<>>
    /\ out[2].df # <<>> /\ Len(out[2].df) < Len(df_mortality)

\* the field names of the rows of the last aggregate
OutputFields == {DOMAIN out.df[i] : i \in DOMAIN out.df}

\* C25 as stated: the fields of every aggregate's rows are exactly the names
\* its consumer binds to.
C25_FieldsAreExactlyTheConsumersNames ==
    IsAggregate => \A fields \in OutputFields : fields = ConsumerColumns(event.name)

\* C25: every name a consumer binds to is a field of every row of the
\* aggregate it is given, under that very name; the rows have no other field,
\* except the monthly aggregate's, which also carry the month number MES
\* that create_monthly_deaths_chart does not read.
C25_ConsumersNamesAreOutputFields ==
    IsAggregate =>
        \A fields \in OutputFields :
            fields = ConsumerColumns(event.name)
                     \cup (IF IsMonthlyAggregate THEN {"MES"} ELSE {})

C25_Witness ==
    /\ IsAggregate
    /\ event.name = "top_causes"
    /\ Len(out.df) >= 2
    /\ OutputFields = {{"Código", "Descripción", "Total de Casos"}}
    /\ out.df[1]["Total de Casos"] >= 2

IsTopNCallback ==
    /\ IsCallback
    /\ ~out.raised
    /\ event.name \in {"update_violent_cities_chart", "update_lowest_mortality_chart"}

\* the records the grouping of the last top-N callback counts: those the
\* gender selection admits, and of them the selected homicides for the
\* violent cities
NarrowedRecords ==
    IF event.name = "update_violent_cities_chart" THEN SurvivingHomicides ELSE AggregationInput

\* the municipalities some result of the top-N pipeline on the whole,
\* unfiltered table holds
InUnfilteredResult ==
    LET results == IF event.name = "update_violent_cities_chart"
                   THEN process_data_for_violent_cities(df_mortality, df_divipola,
                                                        List(ViolentCodes))
                   ELSE process_data_for_lowest_mortality_cities(df_mortality, df_divipola)
    IN  UNION {{u[i].MUNICIPIO : i \in DOMAIN u} : u \in results}

\* C26: update_violent_cities_chart and update_lowest_mortality_chart group,
\* sort and slice the records their gender filter has narrowed: the rows are
\* N municipalities of the narrowed records (all of them when fewer than N
\* have any), each with its count of narrowed records, and no municipality of
\* the narrowed records left out ranks before a returned one.
C26_TopNOfTheNarrowedRecords ==
    IsTopNCallback =>
        LET N == IF event.name = "update_violent_cities_chart" THEN TopViolent ELSE TopLowest
            count == [c \in Range(MunicipalityOrder) |-> Matches(NarrowedRecords, c)]
            counted == {c \in Range(MunicipalityOrder) : count[c] > 0}
            returned == {out.df[i].MUNICIPIO : i \in DOMAIN out.df}
        IN  /\ returned \subseteq counted
            /\ Len(out.df) = Min2(N, Cardinality(counted))
            /\ \A i \in DOMAIN out.df : out.df[i][CountColumn] = count[out.df[i].MUNICIPIO]
            /\ \A c \in counted \ returned, r \in returned :
                  IF event.name = "update_violent_cities_chart"
                  THEN count[c] <= count[r] ELSE count[c] >= count[r]

\* C26 witness: with genders selected, the five most violent cities of the
\* narrowed records include Medellin, which no unfiltered result holds.
C26_Witness ==
    /\ IsTopNCallback
    /\ event.name = "update_violent_cities_chart"
    /\ Constrains(Arg(2))
    /\ Len(out.df) = TopViolent
    /\ \E i \in DOMAIN out.df :
          /\ out.df[i].MUNICIPIO = "MEDELLIN"
          /\ out.df[i].MUNICIPIO \notin InUnfilteredResult

\* what a call returns when it is the first one after startup
FirstAfterStartup(c) ==
    CASE c.name = "update_map" -> update_map(c.args[1], c.args[2], c.args[3])
      [] c.name = "update_monthly_chart" -> update_monthly_chart(c.args[1], c.args[2])
      [] c.name = "update_age_histogram" -> update_age_histogram(c.args[1], c.args[2])
      [] c.name = "update_violent_cities_chart" ->
             update_violent_cities_chart(c.args[1], c.args[2])
      [] c.name = "update_lowest_mortality_chart" -> update_lowest_mortality_chart(c.args[1])
      [] c.name = "update_gender_dept_chart" -> update_gender_dept_chart(c.args[1], c.args[2])

\* C27: whatever events came before and after it, every call of a session
\* returned an aggregate the same call returns on the loaded tables with no
\* event before it; two calls with the same selections whose aggregate has no
\* tied counts to arrange returned the same aggregate.
C27_ResultDependsOnSelectionsOnly ==
    /\ \A j \in DOMAIN event : out[j] \in FirstAfterStartup(event[j])
    /\ \A i, j \in DOMAIN event :
          (i < j /\ event[i] = event[j] /\ Cardinality(FirstAfterStartup(event[j])) = 1) =>
              out[i] = out[j]

\* C27 witness: the lowest-mortality callback with no gender, then with
\* Masculino, then with no gender again: the third result is the first, and
\* the narrower second one is another.
C27_Witness ==
    /\ df_mortality = GenderFile
    /\ Len(event) = 3
    /\ event[1] = [name |-> "update_lowest_mortality_chart", args |-> <<None>>]
    /\ event[2] = [name |-> "update_lowest_mortality_chart", args |-> <<List(<<"Masculino">>)>>]
    /\ event[3] = event[1]
    /\ out[1].df # <<>> /\ out[2].df # <<>>
    /\ out[3] = out[1]
    /\ out[2] # out[1]

FiltersApplied == pc = "returned" /\ ~out.raised

\* the dimensions of the last callback with a non-empty selection
ActiveDimensions == {i \in DOMAIN event.args : Constrains(Arg(i))}

\* the i-th filter block of the last callback
FilterBlock(i, df) ==
    IF event.name = "update_map"
    THEN CASE i = 1 -> MannerFilter(df, Arg(1))
           [] i = 2 -> MonthFilter(df, Arg(2))
           [] i = 3 -> GenderFilter(df, Arg(3))
    ELSE CASE i = 1 -> DeptFilter(df, Arg(1))
           [] i = 2 -> GenderFilter(df, Arg(2))

\* the blocks applied to the base table in the order given
RECURSIVE InOrder(_, _)
InOrder(order, df) ==
    IF order = <<>> THEN df ELSE InOrder(Tail(order), FilterBlock(Head(order), df))

Orders ==
    {order \in [DOMAIN event.args -> DOMAIN event.args] :
        \A i, j \in DOMAIN order : i # j => order[i] # order[j]}

\* record r satisfies the i-th dimension of the last callback: one of the
\* selected values is its own
Satisfies(r, i) ==
    LET sel == Arg(i)
    IN  IF event.name = "update_map"
        THEN CASE i = 1 -> r.MANERA_MUERTE \in Range(sel.list)
               [] i = 2 -> MapDict(MONTH_NAMES, r.MES) \in Range(sel.list)
               [] i = 3 -> MapDict(gender_mapping, r.SEXO) \in Range(sel.list)
        ELSE CASE i = 1 -> \E j \in DOMAIN df_divipola :
                               /\ df_divipola[j].COD_DANE = r.COD_DANE
                               /\ df_divipola[j].DEPARTAMENTO \in Range(sel.list)
               [] i = 2 -> MapDict(gender_mapping, r.SEXO) \in Range(sel.list)

\* a row of filtered_df without the columns the department block joined on
AsLoaded(row) ==
    [c \in {"COD_DANE", "MES", "COD_MUERTE", "MANERA_MUERTE", "GRUPO_EDAD1", "SEXO"} |-> row[c]]

\* C28: with two or more non-empty selections the records kept are those of
\* the base table that satisfy every selected dimension, a record satisfying a
\* dimension when one of the selected values is its own; applying the filter
\* blocks in any other order keeps the same rows; and with departments
\* selected no kept record has a division code missing from the division table.
C28_KeptRecordsSatisfyEveryDimension ==
    (FiltersApplied /\ Cardinality(ActiveDimensions) >= 2) =>
        LET kept == out.filtered_df
        IN  /\ {AsLoaded(kept[k]) : k \in DOMAIN kept} =
                  {df_mortality[k] : k \in
                      {n \in DOMAIN df_mortality :
                          \A i \in ActiveDimensions : Satisfies(df_mortality[n], i)}}
            /\ \A order \in Orders : InOrder(order, df_mortality) = kept
            /\ event.name # "update_map" =>
                  \A k \in DOMAIN kept :
                      \E j \in DOMAIN df_divipola : df_divipola[j].COD_DANE = kept[k].COD_DANE

\* C28 witness: update_map with two manners, two months and a gender selected
\* keeps two of the four records, a homicide and a suicide of January.
C28_Witness ==
    /\ FiltersApplied
    /\ event.name = "update_map"
    /\ Cardinality(ActiveDimensions) = 3
    /\ Len(Arg(1).list) = 2 /\ Len(Arg(2).list) = 2
    /\ Len(df_mortality) = 4
    /\ Len(out.filtered_df) = 2
    /\ out.filtered_df[1].MANERA_MUERTE = "Homicidio"
    /\ out.filtered_df[2].MANERA_MUERTE = "Suicidio"
    /\ out.df # <<>>

\* the division table has one entry per division code
OneEntryPerCode ==
    \A i, j \in DOMAIN df_divipola :
        df_divipola[i].COD_DANE = df_divipola[j].COD_DANE => i = j

\* the department the division table gives for a record, NULL when its code
\* has no entry
DepartmentOf(r) ==
    IF \E j \in DOMAIN df_divipola : df_divipola[j].COD_DANE = r.COD_DANE
    THEN df_divipola[CHOOSE j \in DOMAIN df_divipola :
                         df_divipola[j].COD_DANE = r.COD_DANE].DEPARTAMENTO
    ELSE NULL

\* the records of the mortality table the selections of the last event admit,
\* a department selection admitting the records of the selected departments
AdmittedRecords ==
    CASE event.name = "update_map" ->
             SelectSeq(df_mortality,
                       LAMBDA r : /\ Chosen(Arg(1), r.MANERA_MUERTE)
                                  /\ Chosen(Arg(2), MapDict(MONTH_NAMES, r.MES))
                                  /\ Chosen(Arg(3), MapDict(gender_mapping, r.SEXO)))
      [] event.name = "update_monthly_chart" ->
             SelectSeq(df_mortality,
                       LAMBDA r : /\ Chosen(Arg(1), DepartmentOf(r))
                                  /\ Chosen(Arg(2), MapDict(gender_mapping, r.SEXO)))
      [] OTHER -> df_mortality

\* C29: with one entry per division code in the division table, the counts of
\* the monthly aggregate add up to the number of admitted records that have a
\* month (also when the department filter has joined the division table on),
\* and the counts of the department aggregate add up to the number of admitted
\* records whose division code has an entry with a department.
C29_CountsAddUpToTheRecords ==
    OneEntryPerCode =>
        /\ IsMonthlyAggregate =>
              SumCol(out.df, "TOTAL_DEATHS") =
                  Len(SelectSeq(AdmittedRecords, LAMBDA r : r.MES # NaN))
        /\ IsDepartmentAggregate =>
              SumCol(out.df, "TOTAL_DEATHS") =
                  Len(SelectSeq(AdmittedRecords, LAMBDA r : DepartmentOf(r) # NULL))

\* C29 witness: the monthly chart with departments selected; of six records
\* the five of the selected departments are counted, once each, and the one
\* with an unknown division code is not.
C29_Witness ==
    /\ OneEntryPerCode
    /\ IsMonthlyAggregate
    /\ event.name = "update_monthly_chart"
    /\ Constrains(Arg(1)) /\ Len(Arg(1).list) = 2
    /\ ~Constrains(Arg(2))
    /\ Len(df_mortality) = 6
    /\ \E i \in DOMAIN df_mortality : DepartmentOf(df_mortality[i]) = NULL
    /\ SumCol(out.df, "TOTAL_DEATHS") = 5
    /\ Len(out.df) = 4

\* the aggregates of a groupby().size() on plain columns: all but the age
\* histogram, whose buckets are categories
IsPlainAggregate == IsAggregate /\ ~IsAgeAggregate /\ event.name # "load_data"

\* the column of the last aggregate that holds the count
CountOf(row) ==
    CASE event.name \in {"deaths_by_dept", "update_map",
                         "deaths_by_month", "update_monthly_chart"} -> row.TOTAL_DEATHS
      [] event.name \in {"top_violent_cities", "update_violent_cities_chart"} -> row.HOMICIDES
      [] event.name \in {"lowest_mortality_cities", "update_lowest_mortality_chart"} ->
             row.DEATHS
      [] event.name = "top_causes" -> row["Total de Casos"]
      [] event.name \in {"deaths_by_dept_gender", "update_gender_dept_chart"} -> row.COUNT

\* the municipalities grouped by process_data_for_lowest_mortality_cities
\* before its DEATHS > 0 step
GroupedBeforeDiscard ==
    GroupBySize(MergeLeft(AggregationInput, df_divipola, "COD_DANE", "COD_DANE", {"MUNICIPIO"}),
                "MUNICIPIO", MunicipalityOrder, "DEATHS")

\* C30: every row of the department, monthly, violent-cities,
\* lowest-mortality, top-causes and gender x department aggregates has a
\* count of at least 1, and the DEATHS > 0 step of
\* process_data_for_lowest_mortality_cities removes no row.
C30_EveryRowCountsAtLeastOne ==
    IsPlainAggregate =>
        /\ \A i \in DOMAIN out.df : CountOf(out.df[i]) >= 1
        /\ IsLowestAggregate =>
              SelectSeq(GroupedBeforeDiscard, LAMBDA g : g.DEATHS > 0) = GroupedBeforeDiscard

\* C30 witness: the gender x department aggregate of a table where a sex code
\* and a division code are unknown has rows, one of them with count 2, and no
\* row for the pairs without a record.
C30_Witness ==
    /\ IsPlainAggregate
    /\ event.name = "deaths_by_dept_gender"
    /\ df_mortality = GenderFile
    /\ Len(out.df) = 3
    /\ \E i \in DOMAIN out.df : CountOf(out.df[i]) = 2
    /\ \E i \in DOMAIN out.df : CountOf(out.df[i]) = 1

====
